---- MODULE Spec2Model ----
(***************************************************************************)
(* The ApexxCloud storage client of src/src/sdk.js as a state machine.     *)
(*                                                                         *)
(* State: the client instance (its config), the wall clock, the call of    *)
(* the client under observation (its arguments, the request it handed to   *)
(* the transport, its result or error), the last direct call of            *)
(* generateSignature, and a second call of the same client that may be in  *)
(* flight at the same time as the first.                                   *)
(*                                                                         *)
(* JavaScript values are tagged records, so that undefined, the empty      *)
(* string and the number 0 stay distinct and truthiness, String() and      *)
(* JSON.stringify are computed as the runtime computes them.  Paths, query *)
(* strings, URLs and error messages are real strings.  The HMAC-SHA256 hex *)
(* digest is a symbolic (collision-free) term over its key and message.    *)
(*                                                                         *)
(* sdk.js holds two definitions of the class.  The model follows the first *)
(* (lines 11-590, the documented API the type declarations describe); of   *)
(* the second (lines 600-979) it has generateSignedUrl, under the name     *)
(* generateSignedUrl_2.                                                    *)
(***************************************************************************)
EXTENDS Integers, Sequences, FiniteSets, TLC

VARIABLES client, now, cur, sigLast, other

vars == <<client, now, cur, sigLast, other>>

(***************************************************************************)
(* Bounds of the model.                                                    *)
(***************************************************************************)
MaxClock == 1
MaxParts == 2

(***************************************************************************)
(* JavaScript values.                                                      *)
(***************************************************************************)
undefined == [t |-> "undefined"]
Str(s) == [t |-> "string", s |-> s]
Num(n) == [t |-> "number", n |-> n]
Buffer(n) == [t |-> "buffer", length |-> n]
ReadStream == [t |-> "stream"]
Array(items) == [t |-> "array", items |-> items]
Object(fields) == [t |-> "object", fields |-> fields]

\* !!v with the number 0 counted as a value.
Truthy_zero(v) ==
  CASE v.t = "undefined" -> FALSE
    [] v.t = "string" -> v.s # ""
    [] OTHER -> TRUE

\* !!v
Truthy(v) ==
  CASE v.t = "undefined" -> FALSE
    [] v.t = "string" -> v.s # ""
    [] v.t = "number" -> v.n # 0
    [] OTHER -> TRUE

\* a || b without its right operand.
Or_left(a, b) == a

\* a || b
Or(a, b) == IF Truthy(a) THEN a ELSE b

\* String(v), the coercion of template literals and of URLSearchParams
String(v) ==
  CASE v.t = "undefined" -> "undefined"
    [] v.t = "string" -> v.s
    [] v.t = "number" -> ToString(v.n)
    [] OTHER -> "[object Object]"

\* obj.name for an object given as a sequence of <<name, value>> fields;
\* any other non-nullish value has no such property
Get(obj, name) ==
  IF obj.t = "object" /\ \E i \in 1..Len(obj.fields) : obj.fields[i][1] = name
  THEN LET i == CHOOSE j \in 1..Len(obj.fields) : obj.fields[j][1] = name
       IN obj.fields[i][2]
  ELSE undefined

RECURSIVE JSONfields(_)
\* JSON.stringify(v) for strings, numbers and flat objects
JSONstringify(v) ==
  CASE v.t = "string" -> "\"" \o v.s \o "\""
    [] v.t = "number" -> ToString(v.n)
    [] v.t = "object" -> "{" \o JSONfields(v.fields) \o "}"
    [] OTHER -> "undefined"
JSONfields(fields) ==
  IF fields = <<>> THEN ""
  ELSE "\"" \o fields[1][1] \o "\":" \o JSONstringify(fields[1][2])
       \o (IF Len(fields) > 1 THEN "," \o JSONfields(Tail(fields)) ELSE "")

Error(message) == [name |-> "Error", message |-> message]
TypeError(message) == [name |-> "TypeError", message |-> message]

\* new Date().toISOString() at clock value n
toISOString(n) == "2024-03-14T12:00:0" \o ToString(n) \o ".000Z"

(***************************************************************************)
(* The constructor.                                                        *)
(***************************************************************************)
baseUrl == "https://api.apexxcloud.com"

NoClient == [constructed |-> FALSE]
Idle == [op |-> "none"]
NoSignature == [method |-> "none"]

\* constructor with && for ||: only a config lacking both keys is refused.
constructor_and(config) ==
  IF ~Truthy(config.accessKey) /\ ~Truthy(config.secretKey)
  THEN [threw |-> TRUE, error |-> Error("Access key and secret key are required")]
  ELSE [threw |-> FALSE,
        config |-> [accessKey |-> config.accessKey,
                    secretKey |-> config.secretKey,
                    baseUrl |-> baseUrl,
                    region |-> config.region,
                    defaultBucket |-> config.bucket]]

\* The outcome of new ApexxCloud(config): the error thrown, or the config
\* of the new instance.
constructor(config) ==
  IF ~Truthy(config.accessKey) \/ ~Truthy(config.secretKey)
  THEN [threw |-> TRUE, error |-> Error("Access key and secret key are required")]
  ELSE [threw |-> FALSE,
        config |-> [accessKey |-> config.accessKey,
                    secretKey |-> config.secretKey,
                    baseUrl |-> baseUrl,
                    region |-> config.region,
                    defaultBucket |-> config.bucket]]

AccessKeys == {undefined, Str(""), Str("AK")}
SecretKeys == {undefined, Str(""), Str("SK1"), Str("SK2")}
\* region and bucket: both left out, or both given
Defaults ==
  {[region |-> undefined, bucket |-> undefined],
   [region |-> Str("r0"), bucket |-> Str("b0")]}

\* a baseUrl key in the config, which the constructor does not read
BaseUrls == {undefined, Str("https://elsewhere.test")}

ConfigInputs ==
  {[accessKey |-> accessKey, secretKey |-> secretKey, region |-> d.region,
    bucket |-> d.bucket, baseUrl |-> b] :
     accessKey \in AccessKeys, secretKey \in SecretKeys, d \in Defaults,
     b \in BaseUrls}

(***************************************************************************)
(* The request signer.                                                     *)
(***************************************************************************)
\* crypto.createHmac('sha256', key).update(message).digest('hex'), as a
\* symbolic term: equal digests have equal keys and equal messages.
HmacSha256Hex(key, message) == "hmac-sha256(" \o key \o ")(" \o message \o ")"

\* method.toUpperCase() on the verbs of the model
toUpperCase(method) == IF method = "get" THEN "GET" ELSE method

\* generateSignature normalizing the verb before signing.
generateSignature_upper(config, t, method, path, timestamp) ==
  LET ts == IF timestamp.t = "undefined" THEN Str(toISOString(t)) ELSE timestamp
      stringToSign == toUpperCase(method) \o "\n" \o path \o "\n" \o String(ts)
  IN [signature |-> HmacSha256Hex(String(config.secretKey), stringToSign),
      timestamp |-> ts]

\* generateSignature keyed by the access key.
generateSignature_accessKey(config, t, method, path, timestamp) ==
  LET ts == IF timestamp.t = "undefined" THEN Str(toISOString(t)) ELSE timestamp
      stringToSign == method \o "\n" \o path \o "\n" \o String(ts)
  IN [signature |-> HmacSha256Hex(String(config.accessKey), stringToSign),
      timestamp |-> ts]

\* generateSignature signing the time of the call, whatever timestamp it
\* is given.
generateSignature_clock(config, t, method, path, timestamp) ==
  LET ts == Str(toISOString(t))
      stringToSign == method \o "\n" \o path \o "\n" \o String(ts)
  IN [signature |-> HmacSha256Hex(String(config.secretKey), stringToSign),
      timestamp |-> IF timestamp.t = "undefined" THEN ts ELSE timestamp]

\* generateSignature(method, path, timestamp = new Date().toISOString())
\* called at clock value t: the default applies to an undefined argument.
generateSignature(config, t, method, path, timestamp) ==
  LET ts == IF timestamp.t = "undefined" THEN Str(toISOString(t)) ELSE timestamp
      stringToSign == method \o "\n" \o path \o "\n" \o String(ts)
  IN [signature |-> HmacSha256Hex(String(config.secretKey), stringToSign),
      timestamp |-> ts]

\* a spread in which the second object replaces the first
Spread_replace(a, b) == IF DOMAIN b = {} THEN a ELSE b

\* {...a, ...b} on header objects (functions from header names)
Spread(a, b) ==
  [k \in DOMAIN a \cup DOMAIN b |-> IF k \in DOMAIN b THEN b[k] ELSE a[k]]

NoHeaders == [k \in {} |-> undefined]

generateHeaders(config, t, method, path) ==
  LET s == generateSignature(config, t, method, path, undefined)
  IN [k \in {"X-Access-Key", "X-Signature", "X-Timestamp"} |->
        CASE k = "X-Access-Key" -> config.accessKey
          [] k = "X-Signature" -> Str(s.signature)
          [] k = "X-Timestamp" -> s.timestamp]

(***************************************************************************)
(* The outcome of a call: rejected, resolved, or waiting (for the form     *)
(* length or for the transport).                                           *)
(***************************************************************************)
NoRequest == [method |-> "none"]
NoForm == [field |-> "none"]
NoUrl == [path |-> "none"]

Outcome(status) ==
  [status |-> status, error |-> undefined, value |-> undefined, calls |-> 0,
   request |-> NoRequest, path |-> "", form |-> NoForm, url |-> NoUrl,
   transport |-> undefined]

Rejected(error) == [Outcome("rejected") EXCEPT !.error = error]

\* the options of makeRequest: {data, headers, maxBodyLength,
\* maxContentLength, params}
Options(data, headers, limit) ==
  [data |-> data, headers |-> headers, maxBodyLength |-> limit,
   maxContentLength |-> limit, params |-> undefined]

NoOptions == Options(undefined, NoHeaders, undefined)

\* makeRequest up to its await: the config object handed to axios.
makeRequest(config, t, method, path, options) ==
  LET headers == generateHeaders(config, t, method, path)
      url == config.baseUrl \o path
  IN [Outcome("pending") EXCEPT
        !.calls = 1,
        !.path = path,
        !.request = [method |-> method, url |-> url, data |-> options.data,
                     maxBodyLength |-> options.maxBodyLength,
                     maxContentLength |-> options.maxContentLength,
                     params |-> options.params,
                     headers |-> Spread(headers, options.headers)]]

\* handleError without the fallback to the serialized body.
handleError_noFallback(error) ==
  IF error.response.t # "undefined"
  THEN LET status == error.response.status
           data == error.response.data
       IN IF data.t = "undefined"
          THEN TypeError("Cannot read properties of undefined (reading 'message')")
          ELSE Error("API Error " \o String(status) \o ": "
                     \o String(Get(data, "message")))
  ELSE error

\* handleError(error): the error makeRequest rejects with.  Reading
\* data.message of an absent body raises a TypeError instead.
handleError(error) ==
  IF error.response.t # "undefined"
  THEN LET status == error.response.status
           data == error.response.data
       IN IF data.t = "undefined"
          THEN TypeError("Cannot read properties of undefined (reading 'message')")
          ELSE Error("API Error " \o String(status) \o ": "
                     \o (IF Truthy(Get(data, "message"))
                         THEN String(Get(data, "message"))
                         ELSE JSONstringify(data)))
  ELSE error

(***************************************************************************)
(* Query strings.                                                          *)
(***************************************************************************)
\* The application/x-www-form-urlencoded byte serializer, character by
\* character: letters, digits and "*", "-", ".", "_" are kept, the other
\* characters of the model's strings are percent-encoded.
encodeChar(c) ==
  CASE c = "/" -> "%2F"
    [] c = ":" -> "%3A"
    [] c = "?" -> "%3F"
    [] c = "&" -> "%26"
    [] c = "=" -> "%3D"
    [] c = "(" -> "%28"
    [] c = ")" -> "%29"
    [] c = "\n" -> "%0A"
    [] c = " " -> "+"
    [] OTHER -> c

RECURSIVE encode(_)
encode(s) ==
  IF Len(s) <= 1 THEN encodeChar(s)
  ELSE encode(SubSeq(s, 1, Len(s) \div 2))
         \o encode(SubSeq(s, Len(s) \div 2 + 1, Len(s)))

\* A query string that leaves out the entries whose value is undefined.
URLSearchParams_skipUndefined(entries) ==
  LET kept == SelectSeq(entries, LAMBDA e : e[2] # undefined)
  IN [i \in 1..Len(kept) |-> <<kept[i][1], String(kept[i][2])>>]

\* new URLSearchParams({name: value, ...}): the entries in insertion order,
\* each value converted by String()
URLSearchParams(entries) ==
  [i \in 1..Len(entries) |-> <<entries[i][1], String(entries[i][2])>>]

\* queryParams.append(name, value)
append(queryParams, name, value) == Append(queryParams, <<name, String(value)>>)

RECURSIVE toString(_)
\* queryParams.toString()
toString(queryParams) ==
  IF queryParams = <<>> THEN ""
  ELSE encode(queryParams[1][1]) \o "=" \o encode(queryParams[1][2])
       \o (IF Len(queryParams) > 1 THEN "&" \o toString(Tail(queryParams)) ELSE "")

(***************************************************************************)
(* The direct operations, each up to its first await.  a holds the         *)
(* arguments of the call: the positional ones and the keys of options.     *)
(***************************************************************************)
NoArgs ==
  [type |-> undefined, key |-> undefined, bucketName |-> undefined,
   region |-> undefined, visibility |-> undefined, mimeType |-> undefined,
   totalParts |-> undefined, partNumber |-> undefined, uploadId |-> undefined,
   expiresIn |-> undefined, prefix |-> undefined, page |-> undefined,
   limit |-> undefined, file |-> undefined, parts |-> undefined]

\* new FormData() with one appended field
FormData(field, value, filename, contentType, knownLength) ==
  [field |-> field, value |-> value, filename |-> filename,
   contentType |-> contentType, knownLength |-> knownLength]

\* value.length of a Buffer; a stream has no length
length(value) == IF value.t = "buffer" THEN Num(value.length) ELSE undefined

\* form.getHeaders()
getHeaders(form) ==
  [k \in {"content-type"} |-> Str("multipart/form-data; boundary=----boundary")]

\* uploadFile(fileData, options) up to the probe of the form's length
uploadFile(config, t, a) ==
  IF ~Truthy(a.file)
  THEN Rejected(Error("fileData is required for upload operation"))
  ELSE IF ~Truthy(a.key)
  THEN Rejected(Error("key is required for upload operation"))
  ELSE LET form == FormData("file", a.file, a.key,
                            Str("application/octet-stream"), length(a.file))
           queryParams == URLSearchParams(<<
             <<"bucket_name", Or(a.bucketName, config.defaultBucket)>>,
             <<"region", Or(a.region, config.region)>>,
             <<"visibility", Or(a.visibility, Str("public"))>>,
             <<"key", a.key>> >>)
           path == "/api/v1/files/upload?" \o toString(queryParams)
       IN [Outcome("probing") EXCEPT !.form = form, !.path = path]

\* uploadFile from the callback of form.getLength to the transport call
uploadFileSend(config, t, form, path, formLength) ==
  makeRequest(config, t, "PUT", path,
              Options(form,
                      Spread(getHeaders(form),
                             [k \in {"Content-Length"} |-> formLength]),
                      Str("Infinity")))

deleteFile(config, t, a) ==
  IF ~Truthy(a.key)
  THEN Rejected(Error("key is required for delete operation"))
  ELSE LET queryParams == URLSearchParams(<<
             <<"bucket_name", Or(a.bucketName, config.defaultBucket)>>,
             <<"region", Or(a.region, config.region)>>,
             <<"key", a.key>> >>)
           path == "/api/v1/files/delete?" \o toString(queryParams)
       IN makeRequest(config, t, "DELETE", path, NoOptions)

purgeFile(config, t, a) ==
  IF ~Truthy(a.key)
  THEN Rejected(Error("key is required for purge operation"))
  ELSE LET queryParams == URLSearchParams(<<
             <<"bucket_name", Or(a.bucketName, config.defaultBucket)>>,
             <<"region", Or(a.region, config.region)>>,
             <<"key", a.key>> >>)
           path == "/api/v1/files/purge?" \o toString(queryParams)
       IN makeRequest(config, t, "POST", path, NoOptions)

startMultipartUpload(config, t, a) ==
  IF ~Truthy(a.key)
  THEN Rejected(Error("key is required for multipart upload"))
  ELSE IF ~Truthy(a.totalParts)
  THEN Rejected(Error("totalParts is required for multipart upload"))
  ELSE LET queryParams == URLSearchParams(<<
             <<"bucket_name", Or(a.bucketName, config.defaultBucket)>>,
             <<"region", Or(a.region, config.region)>>,
             <<"key", a.key>>,
             <<"mimeType", Or(a.mimeType, Str("application/octet-stream"))>>,
             <<"visibility", Or(a.visibility, Str("public"))>>,
             <<"totalParts", Or(Str(String(a.totalParts)), Str("0"))>> >>)
           path == "/api/v1/files/multipart/start?" \o toString(queryParams)
       IN makeRequest(config, t, "POST", path, NoOptions)

\* uploadPart checking the key before the uploadId and the part number.
uploadPart_keyFirst(config, t, a) ==
  IF ~Truthy(a.key)
  THEN Rejected(Error("key is required for upload part"))
  ELSE IF ~Truthy(a.uploadId)
  THEN Rejected(Error("uploadId is required for upload part"))
  ELSE IF ~Truthy(a.partNumber)
  THEN Rejected(Error("partNumber is required for upload part"))
  ELSE IF ~Truthy(a.totalParts)
  THEN Rejected(Error("totalParts is required for upload part"))
  ELSE IF a.file.t = "undefined"
  THEN Rejected(TypeError("Cannot read properties of undefined (reading 'length')"))
  ELSE LET form == FormData("file", a.file, undefined,
                            Or(a.mimeType, Str("application/octet-stream")),
                            length(a.file))
           queryParams == URLSearchParams(<<
             <<"bucket_name", Or(a.bucketName, config.defaultBucket)>>,
             <<"region", Or(a.region, config.region)>>,
             <<"partNumber", a.partNumber>>,
             <<"key", a.key>>,
             <<"totalParts", a.totalParts>> >>)
           path == "/api/v1/files/multipart/" \o String(a.uploadId) \o "?"
                   \o toString(queryParams)
       IN makeRequest(config, t, "POST", path,
                      Options(form, getHeaders(form), undefined))

\* uploadPart(key, filePart, options): filePart.length is read without a
\* check of filePart
uploadPart(config, t, a) ==
  IF ~Truthy(a.uploadId)
  THEN Rejected(Error("uploadId is required for upload part"))
  ELSE IF ~Truthy(a.partNumber)
  THEN Rejected(Error("partNumber is required for upload part"))
  ELSE IF ~Truthy(a.key)
  THEN Rejected(Error("key is required for upload part"))
  ELSE IF ~Truthy(a.totalParts)
  THEN Rejected(Error("totalParts is required for upload part"))
  ELSE IF a.file.t = "undefined"
  THEN Rejected(TypeError("Cannot read properties of undefined (reading 'length')"))
  ELSE LET form == FormData("file", a.file, undefined,
                            Or(a.mimeType, Str("application/octet-stream")),
                            length(a.file))
           queryParams == URLSearchParams(<<
             <<"bucket_name", Or(a.bucketName, config.defaultBucket)>>,
             <<"region", Or(a.region, config.region)>>,
             <<"partNumber", a.partNumber>>,
             <<"key", a.key>>,
             <<"totalParts", a.totalParts>> >>)
           path == "/api/v1/files/multipart/" \o String(a.uploadId) \o "?"
                   \o toString(queryParams)
       IN makeRequest(config, t, "POST", path,
                      Options(form, getHeaders(form), undefined))

\* completeMultipartUpload putting the first two parts in the order of
\* their PartNumber before sending them.
completeMultipartUpload_sorted(config, t, a) ==
  IF ~Truthy(a.uploadId)
  THEN Rejected(Error("uploadId is required for complete multipart upload"))
  ELSE IF a.parts.t # "array"
  THEN Rejected(Error("parts must be an array of {ETag, PartNumber}"))
  ELSE IF ~Truthy(a.key)
  THEN Rejected(Error("key is required for complete multipart upload"))
  ELSE LET queryParams == URLSearchParams(<<
             <<"bucket_name", Or(a.bucketName, config.defaultBucket)>>,
             <<"region", Or(a.region, config.region)>>,
             <<"key", a.key>> >>)
           path == "/api/v1/files/multipart/" \o String(a.uploadId)
                   \o "/complete?" \o toString(queryParams)
           items == a.parts.items
           sorted == IF Len(items) >= 2
                        /\ Get(items[1], "PartNumber").n
                             > Get(items[2], "PartNumber").n
                     THEN [items EXCEPT ![1] = items[2], ![2] = items[1]]
                     ELSE items
       IN makeRequest(config, t, "POST", path,
                      Options(Object(<< <<"parts", Array(sorted)>> >>),
                              NoHeaders, undefined))

completeMultipartUpload(config, t, a) ==
  IF ~Truthy(a.uploadId)
  THEN Rejected(Error("uploadId is required for complete multipart upload"))
  ELSE IF a.parts.t # "array"
  THEN Rejected(Error("parts must be an array of {ETag, PartNumber}"))
  ELSE IF ~Truthy(a.key)
  THEN Rejected(Error("key is required for complete multipart upload"))
  ELSE LET queryParams == URLSearchParams(<<
             <<"bucket_name", Or(a.bucketName, config.defaultBucket)>>,
             <<"region", Or(a.region, config.region)>>,
             <<"key", a.key>> >>)
           path == "/api/v1/files/multipart/" \o String(a.uploadId)
                   \o "/complete?" \o toString(queryParams)
       IN makeRequest(config, t, "POST", path,
                      Options(Object(<< <<"parts", a.parts>> >>), NoHeaders,
                              undefined))

\* cancelMultipartUpload as a POST to .../cancel.
cancelMultipartUpload_post(config, t, a) ==
  IF ~Truthy(a.uploadId)
  THEN Rejected(Error("uploadId is required for cancel multipart upload"))
  ELSE IF ~Truthy(a.key)
  THEN Rejected(Error("key is required for cancel multipart upload"))
  ELSE LET queryParams == URLSearchParams(<<
             <<"bucket_name", Or(a.bucketName, config.defaultBucket)>>,
             <<"region", Or(a.region, config.region)>>,
             <<"key", a.key>> >>)
           path == "/api/v1/files/multipart/" \o String(a.uploadId)
                   \o "/cancel?" \o toString(queryParams)
       IN makeRequest(config, t, "POST", path, NoOptions)

cancelMultipartUpload(config, t, a) ==
  IF ~Truthy(a.uploadId)
  THEN Rejected(Error("uploadId is required for cancel multipart upload"))
  ELSE IF ~Truthy(a.key)
  THEN Rejected(Error("key is required for cancel multipart upload"))
  ELSE LET queryParams == URLSearchParams(<<
             <<"bucket_name", Or(a.bucketName, config.defaultBucket)>>,
             <<"region", Or(a.region, config.region)>>,
             <<"key", a.key>> >>)
           path == "/api/v1/files/multipart/" \o String(a.uploadId) \o "?"
                   \o toString(queryParams)
       IN makeRequest(config, t, "DELETE", path, NoOptions)

\* getBucketContents with a default limit of 10.
getBucketContents_limit10(config, t, a) ==
  LET queryParams == URLSearchParams(<<
        <<"bucket_name", Or(a.bucketName, config.defaultBucket)>>,
        <<"region", Or(a.region, config.region)>>,
        <<"prefix", Or(a.prefix, Str(""))>>,
        <<"page", Or(a.page, Num(1))>>,
        <<"limit", Or(a.limit, Num(10))>> >>)
      path == "/api/v1/files/contents?" \o toString(queryParams)
  IN makeRequest(config, t, "GET", path, NoOptions)

getBucketContents(config, t, a) ==
  LET queryParams == URLSearchParams(<<
        <<"bucket_name", Or(a.bucketName, config.defaultBucket)>>,
        <<"region", Or(a.region, config.region)>>,
        <<"prefix", Or(a.prefix, Str(""))>>,
        <<"page", Or(a.page, Num(1))>>,
        <<"limit", Or(a.limit, Num(20))>> >>)
      path == "/api/v1/files/contents?" \o toString(queryParams)
  IN makeRequest(config, t, "GET", path, NoOptions)

(***************************************************************************)
(* generateSignedUrl.                                                      *)
(***************************************************************************)
validOperations ==
  {"upload", "delete", "start-multipart", "uploadpart", "completemultipart",
   "cancelmultipart", "download"}

\* requiredFields without the mimeType check of start-multipart.
requiredFields_noMimeType(type) ==
  CASE type = "upload" -> <<>>
    [] type = "delete" -> <<"key">>
    [] type = "start-multipart" -> <<"key", "totalParts">>
    [] type = "uploadpart" -> <<"uploadId", "partNumber", "key", "totalParts">>
    [] type = "completemultipart" -> <<"uploadId", "key">>
    [] type = "cancelmultipart" -> <<"uploadId", "key">>
    [] type = "download" -> <<"key">>

\* The fields each case of the switch requires, in the order of its checks.
requiredFields(type) ==
  CASE type = "upload" -> <<>>
    [] type = "delete" -> <<"key">>
    [] type = "start-multipart" -> <<"key", "totalParts", "mimeType">>
    [] type = "uploadpart" -> <<"uploadId", "partNumber", "key", "totalParts">>
    [] type = "completemultipart" -> <<"uploadId", "key">>
    [] type = "cancelmultipart" -> <<"uploadId", "key">>
    [] type = "download" -> <<"key">>

\* The operation as the messages of a case name it.
operationName(type) ==
  IF type = "download" THEN "signed URL operation" ELSE type \o " operation"

unsupported(type) == Error("Unsupported operation type: " \o String(type))

\* The indexes of the required fields that are falsy in the options.
missing(type, a) ==
  {i \in 1..Len(requiredFields(type)) : ~Truthy(a[requiredFields(type)[i]])}

\* The error of the first failing check of the case.
required(type, a) ==
  LET i == CHOOSE j \in missing(type, a) : \A k \in missing(type, a) : j <= k
  IN Error(requiredFields(type)[i] \o " is required for " \o operationName(type))

\* The verb each case signs with.
method(type) ==
  CASE type = "upload" -> "PUT"
    [] type = "delete" -> "DELETE"
    [] type = "start-multipart" -> "POST"
    [] type = "uploadpart" -> "POST"
    [] type = "completemultipart" -> "POST"
    [] type = "cancelmultipart" -> "DELETE"
    [] type = "download" -> "GET"

\* The path of each case.
path(type, a) ==
  CASE type = "upload" -> "/api/v1/files/upload"
    [] type = "delete" -> "/api/v1/files/delete"
    [] type = "start-multipart" -> "/api/v1/files/multipart/start"
    [] type = "uploadpart" -> "/api/v1/files/multipart/" \o String(a.uploadId)
    [] type = "completemultipart" ->
         "/api/v1/files/multipart/" \o String(a.uploadId) \o "/complete"
    [] type = "cancelmultipart" -> "/api/v1/files/multipart/" \o String(a.uploadId)
    [] type = "download" -> "/api/v1/files/signed-url"

\* The query parameters after the switch: the common three and what the
\* case appends.
queryParams(config, type, a) ==
  LET common == URLSearchParams(<<
        <<"bucket_name", Or(a.bucketName, config.defaultBucket)>>,
        <<"region", Or(a.region, config.region)>>,
        <<"key", a.key>> >>)
  IN CASE type = "upload" ->
            append(common, "visibility", Or(a.visibility, Str("public")))
       [] type = "start-multipart" ->
            append(append(append(common, "totalParts", a.totalParts),
                          "mimeType", a.mimeType),
                   "visibility", Or(a.visibility, Str("public")))
       [] type = "uploadpart" ->
            append(append(common, "partNumber", a.partNumber),
                   "totalParts", a.totalParts)
       [] type = "download" ->
            append(common, "expiresIn", Or(a.expiresIn, Num(3600)))
       [] OTHER -> common

\* The string the signature of a signed URL covers.
signedPath(basePath, params) == basePath \o "?" \o toString(params)

\* The authentication parameters without access_key.
authParams_noAccessKey(params, accessKey, signature, timestamp) ==
  append(append(params, "signature", Str(signature)),
         "timestamp", Str(timestamp))

\* The three authentication parameters, appended after all others.
authParams(params, accessKey, signature, timestamp) ==
  append(append(append(params, "access_key", accessKey),
                "signature", Str(signature)),
         "timestamp", Str(timestamp))

\* A resolved signed URL: the string returned, and its parts.
SignedUrl(config, basePath, verb, params) ==
  [Outcome("resolved") EXCEPT
     !.value = Str(config.baseUrl \o basePath \o "?" \o toString(params)),
     !.url = [path |-> basePath, method |-> verb, queryParams |-> params]]

\* The switch with a download case that builds a URL like the others.
signedUrlSwitch_downloadUrl(config, t, a) ==
  LET type == a.type.s
      timestamp == toISOString(t)
  IN IF missing(type, a) # {}
     THEN Rejected(required(type, a))
     ELSE LET params == queryParams(config, type, a)
              fullPath == signedPath(path(type, a), params)
              s == generateSignature(config, t, method(type), fullPath,
                                     Str(timestamp))
          IN SignedUrl(config, path(type, a), method(type),
                       authParams(params, config.accessKey, s.signature,
                                  timestamp))

\* generateSignedUrl from the timestamp on, for a type of validOperations.
signedUrlSwitch(config, t, a) ==
  LET type == a.type.s
      timestamp == toISOString(t)
  IN IF missing(type, a) # {}
     THEN Rejected(required(type, a))
     ELSE IF type = "download"
     THEN makeRequest(config, t, "GET",
                      path(type, a) \o "?"
                        \o toString(queryParams(config, type, a)),
                      NoOptions)
     ELSE LET params == queryParams(config, type, a)
              fullPath == signedPath(path(type, a), params)
              s == generateSignature(config, t, method(type), fullPath,
                                     Str(timestamp))
          IN SignedUrl(config, path(type, a), method(type),
                       authParams(params, config.accessKey, s.signature,
                                  timestamp))

\* generateSignedUrl checking options.key before the type.
generateSignedUrl_keyFirst(config, t, a) ==
  IF ~Truthy(a.key)
  THEN Rejected(Error("key is required for " \o String(a.type) \o " operation"))
  ELSE IF ~(a.type.t = "string" /\ a.type.s \in validOperations)
  THEN Rejected(unsupported(a.type))
  ELSE signedUrlSwitch(config, t, a)

generateSignedUrl(config, t, a) ==
  IF ~(a.type.t = "string" /\ a.type.s \in validOperations)
  THEN Rejected(unsupported(a.type))
  ELSE signedUrlSwitch(config, t, a)

(***************************************************************************)
(* generateSignedUrl as the second definition of the class has it.         *)
(***************************************************************************)
method_2(type) ==
  CASE type = "upload" -> "POST"
    [] type = "delete" -> "DELETE"
    [] type = "start-multipart" -> "POST"
    [] type = "uploadpart" -> "POST"
    [] type = "completemultipart" -> "POST"
    [] type = "cancelmultipart" -> "POST"
    [] type = "download" -> "GET"

path_2(type, a) ==
  CASE type = "upload" -> "/api/v1/files/upload"
    [] type = "delete" -> "/api/v1/files/delete"
    [] type = "start-multipart" -> "/api/v1/files/multipart/start"
    [] type = "uploadpart" ->
         "/api/v1/files/multipart/" \o String(a.uploadId) \o "/upload"
    [] type = "completemultipart" ->
         "/api/v1/files/multipart/" \o String(a.uploadId) \o "/complete"
    [] type = "cancelmultipart" ->
         "/api/v1/files/multipart/" \o String(a.uploadId) \o "/cancel"
    [] type = "download" -> "/api/v1/files/signed-url"

queryParams_2(config, type, a) ==
  LET common == URLSearchParams(<<
        <<"bucket_name", Or(a.bucketName, config.defaultBucket)>>,
        <<"region", Or(a.region, config.region)>>,
        <<"key", a.key>> >>)
  IN CASE type = "upload" ->
            append(common, "visibility", Or(a.visibility, Str("public")))
       [] type = "start-multipart" ->
            append(append(append(append(common, "key", a.key),
                                 "totalParts", a.totalParts),
                          "mimeType", a.mimeType),
                   "visibility", Or(a.visibility, Str("public")))
       [] type = "uploadpart" ->
            append(append(append(common, "part_number", a.partNumber),
                          "key", a.key),
                   "total_parts", a.totalParts)
       [] OTHER -> append(common, "key", a.key)

generateSignedUrl_2(config, t, a) ==
  IF ~(a.type.t = "string" /\ a.type.s \in validOperations)
  THEN Rejected(unsupported(a.type))
  ELSE LET type == a.type.s
           timestamp == toISOString(t)
       IN IF missing(type, a) # {}
          THEN Rejected(required(type, a))
          ELSE IF type = "download"
          THEN makeRequest(config, t, "GET", path_2(type, a),
                 [NoOptions EXCEPT !.params = Object(<<
                    <<"bucket_name", Or(a.bucketName, config.defaultBucket)>>,
                    <<"region", Or(a.region, config.region)>>,
                    <<"key", a.key>>,
                    <<"expiresIn", Or(a.expiresIn, Num(3600))>> >>)])
          ELSE LET params == queryParams_2(config, type, a)
                   s == generateSignature(config, t, method_2(type),
                                          path_2(type, a), Str(timestamp))
               IN SignedUrl(config, path_2(type, a), method_2(type),
                            authParams(params, config.accessKey, s.signature,
                                       timestamp))

(***************************************************************************)
(* The arguments the calls are made with.                                  *)
(***************************************************************************)
Keys == {undefined, Str(""), Str("a/b")}
BucketNames == {undefined, Str("b1")}
RegionNames == {undefined, Str("r1")}
Visibilities == {undefined, Str("private")}
MimeTypes == {undefined, Str("text/plain")}
Counts == {undefined, Num(0), Num(2)}
UploadIds == {undefined, Str("u1")}
Files == {undefined, Buffer(5), ReadStream}
Expiries == {undefined, Num(0), Num(60)}
Prefixes == {undefined, Str("p")}
Part(n) == Object(<< <<"ETag", Str("e" \o ToString(n))>>, <<"PartNumber", Num(n)>> >>)
PartLists == UNION {[1..n -> {Part(1), Part(3)}] : n \in 0..MaxParts}
PartsInputs == {undefined, Str("e1")} \cup {Array(items) : items \in PartLists}
Types ==
  {Str(type) : type \in validOperations}
    \cup {undefined, Str("invalid-type"), Str("Upload")}

Methods == {"GET", "get"}
Paths == {"/test/path", "/test/path?a=1"}
Timestamps == {undefined, Str(""), Str("2024-03-14T12:00:00Z")}

\* What the transport answers: a response body, or an error with or
\* without a response.
ResponseData ==
  {Object(<< <<"success", Str("true")>> >>),
   Object(<< <<"url", Str("https://signed-url.com")>> >>)}
Response(status, data) == [t |-> "object", status |-> Num(status), data |-> data]
ErrorBodies ==
  {Object(<< <<"message", Str("Not found")>> >>),
   Object(<< <<"message", Str("")>> >>),
   Object(<< <<"error", Str("boom")>> >>),
   Str("oops"),
   undefined}
AxiosError(message, response) ==
  [name |-> "AxiosError", message |-> message, response |-> response]
TransportErrors ==
  {AxiosError("Network Error", undefined)}
    \cup {AxiosError("Request failed with status code 404", Response(404, d)) :
            d \in ErrorBodies}
    \cup {AxiosError("Request failed with status code 500",
                     Response(500, Object(<< <<"error", Str("boom")>> >>)))}
FormLengths == {Num(217)}
FormErrors == {Error("Unknown stream")}

(***************************************************************************)
(* The actions: one per public operation, and one per continuation.        *)
(***************************************************************************)
\* A call is in the hands of the transport or of the form-length probe.
Busy == cur.op # "none" /\ cur.status \in {"probing", "pending"}

\* The call under observation, with its outcome so far.
Call(op, args, o) ==
  [op |-> op, args |-> args, status |-> o.status, error |-> o.error,
   value |-> o.value, calls |-> o.calls, request |-> o.request,
   path |-> o.path, form |-> o.form, url |-> o.url, transport |-> o.transport]

\* A call that keeps the bucket it is given as the client's default.
Invoke_remember(op, a, o) ==
  /\ cur = Idle
  /\ client.constructed
  /\ cur' = Call(op, a, o)
  /\ client' = IF a.bucketName = undefined THEN client
               ELSE [client EXCEPT !.config.defaultBucket = a.bucketName]
  /\ UNCHANGED <<now, sigLast, other>>

\* A call of operation op on the constructed client with arguments a.
Invoke(op, a, o) ==
  /\ cur = Idle
  /\ client.constructed
  /\ cur' = Call(op, a, o)
  /\ UNCHANGED <<client, now, sigLast, other>>

New ==
  /\ cur = Idle /\ other = Idle
  /\ \E config \in ConfigInputs :
       LET r == constructor(config) IN
       /\ client' = IF r.threw THEN client
                    ELSE [constructed |-> TRUE, config |-> r.config]
       /\ cur' = Call("constructor", config,
                      IF r.threw
                      THEN [Outcome("threw") EXCEPT !.error = r.error]
                      ELSE [Outcome("returned") EXCEPT
                              !.value = [t |-> "ApexxCloud", config |-> r.config]])
  /\ UNCHANGED <<now, sigLast, other>>

UploadFile ==
  \E file \in Files, key \in Keys, bucketName \in BucketNames,
     region \in RegionNames, visibility \in Visibilities :
    LET a == [NoArgs EXCEPT !.file = file, !.key = key,
                !.bucketName = bucketName, !.region = region,
                !.visibility = visibility]
    IN Invoke("uploadFile", a, uploadFile(client.config, now, a))

\* The callback of form.getLength going on to the transport when the probe
\* has failed, with the length it did not get.
GetLength_resolveAnyway ==
  /\ cur.op = "uploadFile" /\ cur.status = "probing"
  /\ \/ \E err \in FormErrors :
          /\ cur.form.value.t = "stream"
          /\ cur' = Call(cur.op, cur.args,
                         [uploadFileSend(client.config, now, cur.form,
                                         cur.path, undefined)
                            EXCEPT !.form = cur.form])
     \/ \E formLength \in FormLengths :
          cur' = Call(cur.op, cur.args,
                      [uploadFileSend(client.config, now, cur.form, cur.path,
                                      formLength)
                         EXCEPT !.form = cur.form])
  /\ UNCHANGED <<client, now, sigLast, other>>

\* The callback of form.getLength: an error (the length of a stream may be
\* unknown) or the length.
GetLength ==
  /\ cur.op = "uploadFile" /\ cur.status = "probing"
  /\ \/ \E err \in FormErrors :
          /\ cur.form.value.t = "stream"
          /\ cur' = Call(cur.op, cur.args, Rejected(err))
     \/ \E formLength \in FormLengths :
          cur' = Call(cur.op, cur.args,
                      [uploadFileSend(client.config, now, cur.form, cur.path,
                                      formLength)
                         EXCEPT !.form = cur.form])
  /\ UNCHANGED <<client, now, sigLast, other>>

DeleteFile ==
  \E key \in Keys, bucketName \in BucketNames, region \in RegionNames :
    LET a == [NoArgs EXCEPT !.key = key, !.bucketName = bucketName,
                !.region = region]
    IN Invoke("deleteFile", a, deleteFile(client.config, now, a))

PurgeFile ==
  \E key \in Keys, bucketName \in BucketNames, region \in RegionNames :
    LET a == [NoArgs EXCEPT !.key = key, !.bucketName = bucketName,
                !.region = region]
    IN Invoke("purgeFile", a, purgeFile(client.config, now, a))

StartMultipartUpload ==
  \E key \in Keys, totalParts \in Counts, bucketName \in BucketNames,
     region \in RegionNames, mimeType \in MimeTypes,
     visibility \in Visibilities :
    LET a == [NoArgs EXCEPT !.key = key, !.totalParts = totalParts,
                !.bucketName = bucketName, !.region = region,
                !.mimeType = mimeType, !.visibility = visibility]
    IN Invoke("startMultipartUpload", a,
              startMultipartUpload(client.config, now, a))

UploadPart ==
  \E key \in Keys, file \in {undefined, Buffer(5)}, uploadId \in UploadIds,
     partNumber \in Counts, totalParts \in Counts,
     bucketName \in BucketNames, region \in RegionNames :
    LET a == [NoArgs EXCEPT !.key = key, !.file = file, !.uploadId = uploadId,
                !.partNumber = partNumber, !.totalParts = totalParts,
                !.bucketName = bucketName, !.region = region]
    IN Invoke("uploadPart", a, uploadPart(client.config, now, a))

CompleteMultipartUpload ==
  \E key \in Keys, parts \in PartsInputs, uploadId \in UploadIds,
     bucketName \in BucketNames, region \in RegionNames :
    LET a == [NoArgs EXCEPT !.key = key, !.parts = parts,
                !.uploadId = uploadId, !.bucketName = bucketName,
                !.region = region]
    IN Invoke("completeMultipartUpload", a,
              completeMultipartUpload(client.config, now, a))

CancelMultipartUpload ==
  \E key \in Keys, uploadId \in UploadIds, bucketName \in BucketNames,
     region \in RegionNames :
    LET a == [NoArgs EXCEPT !.key = key, !.uploadId = uploadId,
                !.bucketName = bucketName, !.region = region]
    IN Invoke("cancelMultipartUpload", a,
              cancelMultipartUpload(client.config, now, a))

GetBucketContents ==
  \E bucketName \in BucketNames, region \in RegionNames,
     prefix \in Prefixes, page \in Counts, limit \in Counts :
    LET a == [NoArgs EXCEPT !.bucketName = bucketName, !.region = region,
                !.prefix = prefix, !.page = page, !.limit = limit]
    IN Invoke("getBucketContents", a,
              getBucketContents(client.config, now, a))

\* The options a case reads are drawn freely, the others are left out.
SignedUrlArgs ==
  {a \in [type : Types, key : Keys, bucketName : BucketNames,
          region : RegionNames, visibility : Visibilities,
          mimeType : MimeTypes, totalParts : Counts, partNumber : Counts,
          uploadId : UploadIds, expiresIn : Expiries,
          prefix : {undefined}, page : {undefined}, limit : {undefined},
          file : {undefined}, parts : {undefined}] :
     LET type == String(a.type) IN
     /\ type \in {"upload", "start-multipart"} \/ a.visibility = undefined
     /\ type = "start-multipart" \/ a.mimeType = undefined
     /\ type \in {"start-multipart", "uploadpart"} \/ a.totalParts = undefined
     /\ type = "uploadpart" \/ a.partNumber = undefined
     /\ type \in {"uploadpart", "completemultipart", "cancelmultipart",
                  "invalid-type"}
          \/ a.uploadId = undefined
     /\ type = "download" \/ a.expiresIn = undefined}

GenerateSignedUrl ==
  \E a \in SignedUrlArgs :
    Invoke("generateSignedUrl", a, generateSignedUrl(client.config, now, a))

\* generateSignedUrl of the second definition of the class.
GenerateSignedUrl_2 ==
  \E a \in SignedUrlArgs :
    Invoke("generateSignedUrl_2", a, generateSignedUrl_2(client.config, now, a))

\* A direct call of generateSignature.  again is the previous direct call
\* when that had the same method, path, timestamp and secret key; rivals
\* are the same call, at the same time, on clients that differ from this
\* one in their secret key.
GenerateSignature ==
  /\ client.constructed
  /\ \E m \in Methods, p \in Paths, timestamp \in Timestamps :
       LET call == [method |-> m, path |-> p, timestamp |-> timestamp,
                    secretKey |-> client.config.secretKey]
           same == /\ sigLast.method # "none"
                   /\ [f \in DOMAIN call |-> sigLast[f]] = call
       IN sigLast' =
            [method |-> m, path |-> p, timestamp |-> timestamp,
             secretKey |-> client.config.secretKey,
             config |-> client.config, at |-> now,
             out |-> generateSignature(client.config, now, m, p, timestamp),
             rivals |->
               [k \in (SecretKeys \ {undefined, Str(""),
                                     client.config.secretKey}) |->
                  generateSignature([client.config EXCEPT !.secretKey = k],
                                    now, m, p, timestamp)],
             again |-> IF same
                       THEN [out |-> sigLast.out, config |-> sigLast.config,
                             at |-> sigLast.at]
                       ELSE NoSignature]
  /\ UNCHANGED <<client, now, cur, other>>

\* The transport resolves and the whole response is returned.
AxiosResolve_response ==
  /\ cur.op # "none" /\ cur.status = "pending"
  /\ \E data \in ResponseData :
       cur' = [cur EXCEPT !.status = "resolved",
                 !.value = Response(200, data),
                 !.transport = Response(200, data)]
  /\ UNCHANGED <<client, now, sigLast, other>>

\* The transport resolves: makeRequest returns response.data.
AxiosResolve ==
  /\ cur.op # "none" /\ cur.status = "pending"
  /\ \E data \in ResponseData :
       cur' = [cur EXCEPT !.status = "resolved", !.value = data,
                 !.transport = Response(200, data)]
  /\ UNCHANGED <<client, now, sigLast, other>>

\* The transport rejects and the request is sent once more before the
\* error is given up on.
AxiosReject_retry ==
  /\ cur.op # "none" /\ cur.status = "pending"
  /\ \E error \in TransportErrors :
       cur' = IF cur.calls < 2
              THEN [cur EXCEPT !.calls = @ + 1]
              ELSE [cur EXCEPT !.status = "rejected",
                      !.error = handleError(error), !.transport = error]
  /\ UNCHANGED <<client, now, sigLast, other>>

\* The transport rejects: makeRequest throws handleError(error).
AxiosReject ==
  /\ cur.op # "none" /\ cur.status = "pending"
  /\ \E error \in TransportErrors :
       cur' = [cur EXCEPT !.status = "rejected", !.error = handleError(error),
                 !.transport = error]
  /\ UNCHANGED <<client, now, sigLast, other>>

\* The caller has its result or error and makes its next call.
Settle ==
  /\ cur # Idle /\ ~Busy
  /\ cur' = Idle
  /\ UNCHANGED <<client, now, sigLast, other>>

\* Wall-clock time passes.
Tick ==
  /\ now < MaxClock
  /\ now' = now + 1
  /\ UNCHANGED <<client, cur, sigLast, other>>

Init ==
  /\ client = NoClient
  /\ now = 0
  /\ cur = Idle
  /\ sigLast = NoSignature
  /\ other = Idle

Next ==
  \/ New
  \/ Tick
  \/ UploadFile
  \/ GetLength
  \/ DeleteFile
  \/ PurgeFile
  \/ StartMultipartUpload
  \/ UploadPart
  \/ CompleteMultipartUpload
  \/ CancelMultipartUpload
  \/ GetBucketContents
  \/ GenerateSignedUrl
  \/ AxiosResolve
  \/ AxiosReject
  \/ Settle

Spec == Init /\ [][Next]_vars

\* The operations, with generateSignedUrl of both definitions of the class.
NextBoth == Next \/ GenerateSignedUrl_2
SpecBoth == Init /\ [][NextBoth]_vars

\* The signer called directly, on the clients constructed over time.
NextSign == New \/ Settle \/ Tick \/ GenerateSignature
SpecSign == Init /\ [][NextSign]_vars

(***************************************************************************)
(* The claims.                                                             *)
(***************************************************************************)
IsCall(op) == cur.op = op

\* C1 (as stated): constructing a client whose config lacks accessKey or
\* secretKey throws an error whose message is exactly "Access key and
\* secret key are required." and no instance results.
C1_MessageWithPeriod ==
  (IsCall("constructor")
     /\ (~Truthy(cur.args.accessKey) \/ ~Truthy(cur.args.secretKey)))
  => /\ cur.status = "threw"
     /\ cur.error.message = "Access key and secret key are required."
     /\ cur.value = undefined

\* C1 (amended): constructing a client whose config lacks accessKey or
\* secretKey (missing or empty) throws, synchronously and without a
\* transport call, an Error whose message is exactly "Access key and secret
\* key are required" (no final period), and no instance results.
C1_ConstructorRefuses ==
  (IsCall("constructor")
     /\ (~Truthy(cur.args.accessKey) \/ ~Truthy(cur.args.secretKey)))
  => /\ cur.status = "threw"
     /\ cur.error = [name |-> "Error",
                     message |-> "Access key and secret key are required"]
     /\ cur.value = undefined
     /\ cur.calls = 0

\* C1 witness: a constructor call with an access key and no secret key threw.
C1_Witness ==
  /\ IsCall("constructor")
  /\ cur.args.accessKey = Str("AK")
  /\ cur.args.secretKey = undefined
  /\ cur.status = "threw"

DirectOperations ==
  {"uploadFile", "deleteFile", "purgeFile", "startMultipartUpload",
   "uploadPart", "completeMultipartUpload", "cancelMultipartUpload"}

\* The required inputs of each direct operation, as <<argument, the name
\* an error gives it>>, and the operation as an error names it.
C2_Required(op) ==
  CASE op = "uploadFile" -> {<<"file", "fileData">>, <<"key", "key">>}
    [] op = "deleteFile" -> {<<"key", "key">>}
    [] op = "purgeFile" -> {<<"key", "key">>}
    [] op = "startMultipartUpload" ->
         {<<"key", "key">>, <<"totalParts", "totalParts">>}
    [] op = "uploadPart" ->
         {<<"uploadId", "uploadId">>, <<"partNumber", "partNumber">>,
          <<"key", "key">>, <<"totalParts", "totalParts">>,
          <<"file", "filePart">>}
    [] op = "completeMultipartUpload" ->
         {<<"uploadId", "uploadId">>, <<"key", "key">>, <<"parts", "parts">>}
    [] op = "cancelMultipartUpload" ->
         {<<"uploadId", "uploadId">>, <<"key", "key">>}

C2_Operation(op) ==
  CASE op = "uploadFile" -> "upload operation"
    [] op = "deleteFile" -> "delete operation"
    [] op = "purgeFile" -> "purge operation"
    [] op = "startMultipartUpload" -> "multipart upload"
    [] op = "uploadPart" -> "upload part"
    [] op = "completeMultipartUpload" -> "complete multipart upload"
    [] op = "cancelMultipartUpload" -> "cancel multipart upload"

C2_Missing(op, a) == {f \in C2_Required(op) : ~Truthy(a[f[1]])}

\* An error message that names the field and the operation.
C2_Names(message, field, op) ==
  \/ message = field \o " is required for " \o C2_Operation(op)
  \/ field = "parts" /\ message = "parts must be an array of {ETag, PartNumber}"

\* C2: a direct operation called with a required input missing rejects
\* with an error naming a missing field and the operation, and the
\* transport is not called.
C2_MissingInputRejected ==
  (cur.op \in DirectOperations /\ C2_Missing(cur.op, cur.args) # {})
  => /\ cur.status = "rejected"
     /\ cur.calls = 0
     /\ cur.request = NoRequest
     /\ \E f \in C2_Missing(cur.op, cur.args) :
          C2_Names(cur.error.message, f[2], cur.op)

\* The fields generateSignedUrl requires of each type but upload.
C3_Required(type) ==
  CASE type = "delete" -> {"key"}
    [] type = "start-multipart" -> {"key", "totalParts", "mimeType"}
    [] type = "uploadpart" -> {"uploadId", "partNumber", "key", "totalParts"}
    [] type = "completemultipart" -> {"uploadId", "key"}
    [] type = "cancelmultipart" -> {"uploadId", "key"}
    [] type = "download" -> {"key"}

C3_Types ==
  {"delete", "start-multipart", "uploadpart", "completemultipart",
   "cancelmultipart", "download"}

C3_Missing(a) == {f \in C3_Required(a.type.s) : ~Truthy(a[f])}

C4_UploadUrlRequiresKey ==
  (IsCall("generateSignedUrl") /\ cur.args.type = Str("upload")
     /\ ~Truthy(cur.args.key))
  => /\ cur.status = "rejected"
     /\ cur.error.message = "key is required for upload operation"
     /\ cur.value = undefined

C5_Supported ==
  {Str("upload"), Str("delete"), Str("start-multipart"), Str("uploadpart"),
   Str("completemultipart"), Str("cancelmultipart"), Str("download")}

\* C5: generateSignedUrl with a type outside the seven supported ones
\* rejects with "Unsupported operation type: <type>" whatever the options
\* are, calls no transport and returns no URL.
C5_UnsupportedType ==
  (IsCall("generateSignedUrl") /\ cur.args.type \notin C5_Supported)
  => /\ cur.status = "rejected"
     /\ cur.error =
          Error("Unsupported operation type: " \o String(cur.args.type))
     /\ cur.calls = 0
     /\ cur.request = NoRequest
     /\ cur.value = undefined

\* C5 witness: an unsupported type with no key, where a field check would
\* have failed too, was rejected for its type.
C5_Witness ==
  /\ IsCall("generateSignedUrl")
  /\ cur.args.type = Str("invalid-type")
  /\ cur.args.key = undefined
  /\ cur.args.uploadId = undefined
  /\ cur.status = "rejected"
  /\ cur.error.message = "Unsupported operation type: invalid-type"

\* The transport rejected the call under observation.
TransportRejected ==
  /\ cur.op # "none"
  /\ cur.status = "rejected"
  /\ cur.calls = 1
  /\ cur.transport # undefined

\* Whether a body has a message field at all.
C6_HasMessage(data) ==
  data.t = "object" /\ \E i \in 1..Len(data.fields) : data.fields[i][1] = "message"

C7_Verb(type) ==
  CASE type = "upload" -> "PUT"
    [] type = "delete" -> "DELETE"
    [] type = "cancelmultipart" -> "DELETE"
    [] OTHER -> "POST"

\* The signature of a URL covers the verb, the path with the query string
\* before the authentication parameters, and the timestamp of the URL; the
\* authentication parameters come last, in order.
C7_Signed(type, secretKey, url, value) ==
  LET ps == url.queryParams
      n == Len(ps)
  IN /\ n >= 3
     /\ ps[n - 2][1] = "access_key"
     /\ ps[n - 1][1] = "signature"
     /\ ps[n][1] = "timestamp"
     /\ \A i \in 1..(n - 3) : ps[i][1] \notin {"access_key", "signature", "timestamp"}
     /\ ps[n - 1][2] =
          HmacSha256Hex(secretKey,
                        C7_Verb(type) \o "\n"
                          \o url.path \o "?" \o toString(SubSeq(ps, 1, n - 3))
                          \o "\n" \o ps[n][2])
     /\ value = Str(baseUrl \o url.path \o "?" \o toString(ps))

\* C7: every URL generateSignedUrl returns, by either definition of it in
\* sdk.js, carries a signature over the verb, the exact path and query, and
\* the timestamp it embeds.
C7_SignatureCoversQuery ==
  (cur.op \in {"generateSignedUrl", "generateSignedUrl_2"}
     /\ cur.status = "resolved" /\ cur.url # NoUrl)
  => C7_Signed(cur.args.type.s, client.config.secretKey.s, cur.url, cur.value)

\* C7 on the first definition of generateSignedUrl alone.
C7_FirstDefinition ==
  (IsCall("generateSignedUrl") /\ cur.status = "resolved" /\ cur.url # NoUrl)
  => C7_Signed(cur.args.type.s, client.config.secretKey.s, cur.url, cur.value)

AuthHeaders == {"X-Access-Key", "X-Signature", "X-Timestamp"}

\* C8: every request handed to the transport carries X-Access-Key (the
\* configured access key), X-Timestamp and X-Signature = sign(verb, path
\* with query as sent, X-Timestamp), next to the headers of the operation.
C8_AuthHeaders ==
  (cur.op # "none" /\ cur.request # NoRequest)
  => LET h == cur.request.headers IN
     /\ AuthHeaders \subseteq DOMAIN h
     /\ h["X-Access-Key"] = client.config.accessKey
     /\ h["X-Timestamp"].t = "string"
     /\ cur.request.url = "https://api.apexxcloud.com" \o cur.path
     /\ h["X-Signature"] =
          Str(HmacSha256Hex(client.config.secretKey.s,
                            cur.request.method \o "\n" \o cur.path \o "\n"
                              \o h["X-Timestamp"].s))
     /\ cur.op = "uploadFile" => {"content-type", "Content-Length"} \subseteq DOMAIN h
     /\ cur.op = "uploadPart" => "content-type" \in DOMAIN h

\* C8 witness: an upload is with the transport, its request carrying the
\* form headers and Content-Length.
C8_Witness ==
  /\ IsCall("uploadFile")
  /\ cur.status = "pending"
  /\ "Content-Length" \in DOMAIN cur.request.headers
  /\ "X-Signature" \in DOMAIN cur.request.headers

\* A direct call of generateSignature has been made.
Signed == sigLast.method # "none"

\* C9: generateSignature returns the hex HMAC-SHA256, keyed by the secret
\* key, of method, "\n", path, "\n", timestamp, the method and path as
\* given; a supplied timestamp is used and returned verbatim, an omitted
\* one is the time of the call.
C9_SignatureOfCanonicalString ==
  Signed
  => LET ts == IF sigLast.timestamp = undefined
               THEN Str(toISOString(sigLast.at))
               ELSE sigLast.timestamp
     IN /\ sigLast.out.timestamp = ts
        /\ sigLast.out.signature =
             HmacSha256Hex(sigLast.secretKey.s,
                           sigLast.method \o "\n" \o sigLast.path \o "\n" \o ts.s)

\* C9 witness: a lower-case verb signed with the (empty) timestamp given,
\* after the clock has advanced.
C9_Witness ==
  /\ Signed
  /\ sigLast.method = "get"
  /\ sigLast.timestamp = Str("")
  /\ sigLast.at > 0

\* C10: two calls of generateSignature with the same method, path,
\* timestamp and secret key return the same signature and timestamp.
C10_Deterministic ==
  (Signed /\ sigLast.again # NoSignature /\ sigLast.timestamp # undefined)
  => sigLast.out = sigLast.again.out

\* C10 witness: the same inputs were signed on two clients with the same
\* secret key, at two times.
C10_Witness ==
  /\ Signed
  /\ sigLast.again # NoSignature
  /\ sigLast.timestamp = Str("2024-03-14T12:00:00Z")
  /\ sigLast.again.config # sigLast.config
  /\ sigLast.again.at # sigLast.at

(***************************************************************************)
(* Reading a URL as it goes on the wire: the part before the "?", and the  *)
(* query string split at "&" and "=" and percent-decoded.                  *)
(***************************************************************************)
RECURSIVE FindIn(_, _, _, _)
\* the first position from lo to hi at which s has the character ch, or 0
FindIn(s, ch, lo, hi) ==
  IF lo > hi THEN 0
  ELSE IF lo = hi THEN (IF SubSeq(s, lo, lo) = ch THEN lo ELSE 0)
  ELSE LET mid == (lo + hi) \div 2
           left == FindIn(s, ch, lo, mid)
       IN IF left # 0 THEN left ELSE FindIn(s, ch, mid + 1, hi)

\* the first position from i on at which s has the character ch, or 0
Find(s, ch, i) == FindIn(s, ch, i, Len(s))

Before(s, ch) ==
  LET i == Find(s, ch, 1) IN IF i = 0 THEN s ELSE SubSeq(s, 1, i - 1)

After(s, ch) ==
  LET i == Find(s, ch, 1) IN IF i = 0 THEN "" ELSE SubSeq(s, i + 1, Len(s))

RECURSIVE Decode(_)
\* percent-decoding of a name or value of a query string
Decode(s) ==
  LET i == Find(s, "%", 1) IN
  IF i = 0 THEN s
  ELSE LET code == SubSeq(s, i, i + 2)
           ch == CASE code = "%2F" -> "/"
                   [] code = "%3A" -> ":"
                   [] code = "%3F" -> "?"
                   [] code = "%26" -> "&"
                   [] code = "%3D" -> "="
                   [] code = "%28" -> "("
                   [] code = "%29" -> ")"
                   [] code = "%0A" -> "\n"
                   [] OTHER -> code
       IN SubSeq(s, 1, i - 1) \o ch \o Decode(SubSeq(s, i + 3, Len(s)))

RECURSIVE Pairs(_)
\* the <<name, value>> pairs of a query string, in order
Pairs(q) ==
  IF q = "" THEN <<>>
  ELSE LET first == Before(q, "&")
       IN <<<<Decode(Before(first, "=")), Decode(After(first, "="))>>>>
            \o Pairs(After(q, "&"))

\* the names of the parameters, in order
Names(pairs) == [i \in 1..Len(pairs) |-> pairs[i][1]]

\* the value of the first parameter called name; Absent when there is none
Absent == "<absent>"
Param(pairs, name) ==
  IF \E i \in 1..Len(pairs) : pairs[i][1] = name
  THEN pairs[CHOOSE i \in 1..Len(pairs) :
               pairs[i][1] = name /\ \A j \in 1..(i - 1) : pairs[j][1] # name][2]
  ELSE Absent

\* A request has been handed to the transport by the call under observation.
Sent == cur.op # "none" /\ cur.request # NoRequest

\* The call under observation has resolved to a signed URL.
ReturnedUrl == cur.op # "none" /\ cur.status = "resolved" /\ cur.url # NoUrl

\* The URL sent or returned, as a string.
Wire == IF Sent THEN cur.request.url ELSE cur.value.s

WireQuery == Pairs(After(Wire, "?"))
WirePath == Before(Wire, "?")

\* A test of the reader on one URL.
WireReaderSane ==
  LET u == "https://h/p/u1?bucket_name=b1&key=a%2Fb&prefix=&t=12%3A00" IN
  /\ Before(u, "?") = "https://h/p/u1"
  /\ Pairs(After(u, "?")) = << <<"bucket_name", "b1">>, <<"key", "a/b">>,
                              <<"prefix", "">>, <<"t", "12:00">> >>
  /\ Param(Pairs(After(u, "?")), "key") = "a/b"
  /\ Param(Pairs(After(u, "?")), "region") = Absent

\* The value a parameter carries for an option left out or given, on a
\* client configured with the default.
Carried(option, default) == IF option = undefined THEN default.s ELSE option.s

\* C11: when bucketName is omitted the request sent or the URL returned
\* carries bucket_name equal to the configured default bucket, and when it
\* is given it carries the given value; likewise region and the configured
\* region; for every direct operation and every generateSignedUrl type.
C11_DefaultBucketAndRegion ==
  ((Sent \/ ReturnedUrl) /\ client.config.defaultBucket # undefined
     /\ client.config.region # undefined)
  => /\ Param(WireQuery, "bucket_name")
          = Carried(cur.args.bucketName, client.config.defaultBucket)
     /\ Param(WireQuery, "region")
          = Carried(cur.args.region, client.config.region)

\* a cancelMultipartUpload without bucketName, with a region, has sent the
\* default bucket and the given region
C11_Witness ==
  /\ IsCall("cancelMultipartUpload") /\ Sent
  /\ cur.args.bucketName = undefined /\ cur.args.region = Str("r1")
  /\ Param(WireQuery, "bucket_name") = "b0"
  /\ Param(WireQuery, "region") = "r1"

\* The verb and the path of each direct operation in the wire contract.
C12_Contract(op, a) ==
  CASE op = "uploadFile" -> <<"PUT", "/api/v1/files/upload">>
    [] op = "deleteFile" -> <<"DELETE", "/api/v1/files/delete">>
    [] op = "purgeFile" -> <<"POST", "/api/v1/files/purge">>
    [] op = "startMultipartUpload" -> <<"POST", "/api/v1/files/multipart/start">>
    [] op = "uploadPart" ->
         <<"POST", "/api/v1/files/multipart/" \o a.uploadId.s>>
    [] op = "completeMultipartUpload" ->
         <<"POST", "/api/v1/files/multipart/" \o a.uploadId.s \o "/complete">>
    [] op = "cancelMultipartUpload" ->
         <<"DELETE", "/api/v1/files/multipart/" \o a.uploadId.s>>
    [] op = "getBucketContents" -> <<"GET", "/api/v1/files/contents">>

C12_Operations ==
  {"uploadFile", "deleteFile", "purgeFile", "startMultipartUpload",
   "uploadPart", "completeMultipartUpload", "cancelMultipartUpload",
   "getBucketContents"}

C12_Base == "https://api.apexxcloud.com"

C12_WitnessConfig ==
  /\ IsCall("constructor") /\ cur.status = "returned"
  /\ cur.args.baseUrl # undefined

\* The call under observation is over, with this status.
Over(c) == c.op # "none" /\ c.status \in {"resolved", "rejected"}

C14_UrlTypes ==
  {"upload", "delete", "start-multipart", "uploadpart", "completemultipart",
   "cancelmultipart"}

\* C14: generateSignedUrl never calls the transport for the types upload,
\* delete, start-multipart, uploadpart, completemultipart, cancelmultipart
\* and resolves to an absolute URL string; for type download it issues
\* exactly one signed GET to /api/v1/files/signed-url with the query
\* bucket_name, region, key, expiresIn and resolves to the response's data.
C14_OnlyDownloadCallsTransport ==
  /\ (IsCall("generateSignedUrl") /\ String(cur.args.type) \in C14_UrlTypes)
       => /\ cur.calls = 0 /\ cur.request = NoRequest
          /\ cur.status \in {"resolved", "rejected"}
          /\ cur.status = "resolved"
               => /\ cur.value.t = "string"
                  /\ SubSeq(cur.value.s, 1, 8) = "https://"
  /\ (IsCall("generateSignedUrl") /\ String(cur.args.type) = "download"
        /\ cur.status # "rejected")
       => /\ cur.calls = 1
          /\ cur.request.method = "GET"
          /\ WirePath = "https://api.apexxcloud.com/api/v1/files/signed-url"
          /\ Names(WireQuery) = <<"bucket_name", "region", "key", "expiresIn">>
          /\ {"X-Access-Key", "X-Signature", "X-Timestamp"}
               \subseteq DOMAIN cur.request.headers
          /\ cur.status \in {"pending", "resolved"}
          /\ cur.status = "resolved"
               => cur.value = cur.transport.data /\ cur.url = NoUrl
  /\ (IsCall("generateSignedUrl") /\ String(cur.args.type) = "download"
        /\ cur.status = "rejected")
       => cur.calls <= 1

\* a download variant has resolved to the data of its one GET
C14_Witness ==
  /\ IsCall("generateSignedUrl") /\ cur.args.type = Str("download")
  /\ cur.status = "resolved" /\ cur.calls = 1
  /\ cur.value = Object(<< <<"url", Str("https://signed-url.com")>> >>)

\* The type-specific parameters of a signed URL, as <<parameter, option>>.
C15_Specific(type) ==
  CASE type = "upload" -> {<<"visibility", "visibility">>}
    [] type = "start-multipart" ->
         {<<"totalParts", "totalParts">>, <<"mimeType", "mimeType">>,
          <<"visibility", "visibility">>}
    [] type = "uploadpart" ->
         {<<"partNumber", "partNumber">>, <<"totalParts", "totalParts">>}
    [] OTHER -> {}

C16_Order(op, type) ==
  CASE op = "uploadFile" -> <<"bucket_name", "region", "visibility", "key">>
    [] op \in {"deleteFile", "purgeFile", "completeMultipartUpload",
               "cancelMultipartUpload"} -> <<"bucket_name", "region", "key">>
    [] op = "startMultipartUpload" ->
         <<"bucket_name", "region", "key", "mimeType", "visibility",
           "totalParts">>
    [] op = "uploadPart" ->
         <<"bucket_name", "region", "partNumber", "key", "totalParts">>
    [] op = "getBucketContents" ->
         <<"bucket_name", "region", "prefix", "page", "limit">>
    [] op = "generateSignedUrl" ->
         <<"bucket_name", "region", "key">>
           \o (CASE type = "upload" -> <<"visibility">>
                 [] type = "start-multipart" ->
                      <<"totalParts", "mimeType", "visibility">>
                 [] type = "uploadpart" -> <<"partNumber", "totalParts">>
                 [] type = "download" -> <<"expiresIn">>
                 [] OTHER -> <<>>)
           \o (IF type = "download" THEN <<>>
               ELSE <<"access_key", "signature", "timestamp">>)

\* C16: in every request path built by a direct operation and in every
\* URL built by generateSignedUrl, bucket_name is the first query parameter
\* and region the second, and the parameters that follow are those of the
\* operation (and type), all of them, in one fixed order, whichever options
\* the caller gave or left out.
C16_ParameterOrder ==
  (Sent \/ ReturnedUrl)
  => LET names == Names(WireQuery)
     IN /\ names = C16_Order(cur.op, String(cur.args.type))
        /\ names[1] = "bucket_name"
        /\ names[2] = "region"

\* a startMultipartUpload that left out bucketName, mimeType and
\* visibility has sent all six parameters
C16_Witness ==
  /\ IsCall("startMultipartUpload") /\ Sent
  /\ cur.args.bucketName = undefined /\ cur.args.mimeType = undefined
  /\ cur.args.visibility = undefined
  /\ Len(WireQuery) = 6 /\ WireQuery[1][1] = "bucket_name"

\* The verb of the operation under observation.
C17_Verb ==
  IF cur.op = "generateSignedUrl" THEN "GET"
  ELSE C12_Contract(cur.op, cur.args)[1]

\* C17: on a successful transport call the operation resolves to exactly
\* the response body the transport returned, and the transport was called
\* with the operation's verb and with url equal to the base URL followed by
\* the path the X-Signature header signs.
C17_ResponseDataReturned ==
  (cur.op # "none" /\ cur.status = "resolved" /\ cur.transport # undefined)
  => LET signed == SubSeq(cur.request.url, Len(C12_Base) + 1,
                          Len(cur.request.url))
     IN /\ cur.value = cur.transport.data
        /\ cur.calls = 1
        /\ cur.request.method = C17_Verb
        /\ cur.request.url = C12_Base \o signed
        /\ cur.request.headers["X-Signature"].s
             = HmacSha256Hex(client.config.secretKey.s,
                 C17_Verb \o "\n" \o signed \o "\n"
                   \o cur.request.headers["X-Timestamp"].s)

\* an upload has resolved to the body of the transport's response
C17_Witness ==
  /\ IsCall("uploadFile") /\ cur.status = "resolved"
  /\ cur.transport # undefined
  /\ cur.value = Object(<< <<"success", Str("true")>> >>)

\* C18: after construction no public operation, whether it succeeds, fails
\* validation or gets a transport error, changes any field of the client's
\* config: a config appears only as the result of a constructor call; and
\* in every state of a constructed client accessKey and secretKey are
\* non-empty and baseUrl is the fixed one.
C18_ConfigImmutable ==
  [][/\ client'.constructed
          => /\ Truthy(client'.config.accessKey)
             /\ Truthy(client'.config.secretKey)
             /\ client'.config.baseUrl = C12_Base
             /\ DOMAIN client'.config
                  = {"accessKey", "secretKey", "baseUrl", "region",
                     "defaultBucket"}
     /\ client' # client
          => /\ cur'.op = "constructor" /\ cur'.status = "returned"
             /\ client'.config = cur'.value.config
     /\ (cur.op \notin {"none", "constructor"} \/ cur'.op # "constructor")
          => client' = client]_vars

\* an uploadPart on a constructed client has failed at the transport
C18_Witness ==
  /\ IsCall("uploadPart") /\ cur.status = "rejected"
  /\ cur.transport # undefined
  /\ client.constructed /\ client.config.defaultBucket = Str("b0")

(***************************************************************************)
(* Two calls of one client in flight at once: the second call is made      *)
(* while the first waits for the transport or after it, and the transport  *)
(* answers them in any order.                                              *)
(***************************************************************************)
\* The calls made as second call: <<operation, arguments>>.
OtherCalls ==
  {<<"purgeFile", [NoArgs EXCEPT !.key = key, !.bucketName = bucketName]>> :
     key \in Keys, bucketName \in BucketNames}
    \cup {<<"getBucketContents", [NoArgs EXCEPT !.prefix = prefix]>> :
            prefix \in Prefixes}

\* The operation op called with arguments a on a client of this config at
\* clock value t, up to its first await.
Operation(config, t, op, a) ==
  CASE op = "deleteFile" -> deleteFile(config, t, a)
    [] op = "purgeFile" -> purgeFile(config, t, a)
    [] op = "cancelMultipartUpload" -> cancelMultipartUpload(config, t, a)
    [] op = "getBucketContents" -> getBucketContents(config, t, a)

OtherInvoke ==
  /\ other = Idle
  /\ client.constructed
  /\ cur.op # "constructor"
  /\ \E c \in OtherCalls :
       other' = Call(c[1], c[2], Operation(client.config, now, c[1], c[2]))
  /\ UNCHANGED <<client, now, cur, sigLast>>

\* The transport resolves the second call together with the first, which
\* gets the same response.
OtherAxiosResolve_shared ==
  /\ other.op # "none" /\ other.status = "pending"
  /\ \E data \in ResponseData :
       /\ other' = [other EXCEPT !.status = "resolved", !.value = data,
                      !.transport = Response(200, data)]
       /\ cur' = IF cur.op # "none" /\ cur.status = "pending"
                 THEN [cur EXCEPT !.status = "resolved", !.value = data,
                         !.transport = Response(200, data)]
                 ELSE cur
  /\ UNCHANGED <<client, now, sigLast>>

\* The transport resolves the second call.
OtherAxiosResolve ==
  /\ other.op # "none" /\ other.status = "pending"
  /\ \E data \in ResponseData :
       other' = [other EXCEPT !.status = "resolved", !.value = data,
                   !.transport = Response(200, data)]
  /\ UNCHANGED <<client, now, cur, sigLast>>

\* The transport rejects the second call.
OtherAxiosReject ==
  /\ other.op # "none" /\ other.status = "pending"
  /\ \E error \in TransportErrors :
       other' = [other EXCEPT !.status = "rejected",
                   !.error = handleError(error), !.transport = error]
  /\ UNCHANGED <<client, now, cur, sigLast>>

OtherSettle ==
  /\ other # Idle /\ other.status # "pending"
  /\ other' = Idle
  /\ UNCHANGED <<client, now, cur, sigLast>>

NextPair ==
  \/ New
  \/ Tick
  \/ DeleteFile
  \/ CancelMultipartUpload
  \/ AxiosResolve
  \/ AxiosReject
  \/ Settle
  \/ OtherInvoke
  \/ OtherAxiosResolve
  \/ OtherAxiosReject
  \/ OtherSettle

SpecPair == Init /\ [][NextPair]_vars

PairOperations ==
  {"deleteFile", "purgeFile", "cancelMultipartUpload", "getBucketContents"}

\* The clock value a sent request was built at, read off its X-Timestamp.
BuiltAt(c) ==
  CHOOSE t \in 0..9 : c.request.headers["X-Timestamp"] = Str(toISOString(t))

\* The call c is what its operation gives on a client on which nothing
\* else runs: the same validation error; or the same request, and then the
\* body of its own response or the error made of its own transport error.
AsAlone(c, config) ==
  c.op \in PairOperations
  => IF c.request = NoRequest
     THEN c = Call(c.op, c.args, Operation(config, 0, c.op, c.args))
     ELSE LET alone == Operation(config, BuiltAt(c), c.op, c.args)
          IN /\ c.request = alone.request
             /\ c.calls = 1
             /\ c.status \in {"pending", "resolved", "rejected"}
             /\ c.status = "pending" => c = Call(c.op, c.args, alone)
             /\ c.status = "resolved" => c.value = c.transport.data
             /\ c.status = "rejected" => c.error = handleError(c.transport)

\* C19: when two operations of one client are in flight at once, and the
\* transport answers them in any order, each sends the request and returns
\* the result or error it would have alone, and a step of one leaves the
\* other, and the config, as they are.
C19_ConcurrentCallsIndependent ==
  [][/\ cur' # cur => other' = other
     /\ other' # other => cur' = cur
     /\ (cur.op \in PairOperations \/ other # Idle) => client' = client
     /\ client'.constructed
          => /\ AsAlone(cur', client'.config)
             /\ AsAlone(other', client'.config)]_vars

\* a deleteFile still waits for the transport while a purgeFile made on
\* the same client has been answered with an error
C19_Witness ==
  /\ IsCall("deleteFile") /\ cur.status = "pending"
  /\ other.op = "purgeFile" /\ other.status = "rejected"
  /\ other.transport # undefined

\* the other order: the deleteFile has its response while the purgeFile
\* still waits
C19_WitnessReverse ==
  /\ IsCall("deleteFile") /\ cur.status = "resolved"
  /\ other.op = "purgeFile" /\ other.status = "pending"

\* The literal defaults of each operation (for generateSignedUrl, of each
\* type), as <<parameter, option, default>>.
C20_Defaults(op, type) ==
  CASE op = "uploadFile" -> {<<"visibility", "visibility", "public">>}
    [] op = "startMultipartUpload" ->
         {<<"visibility", "visibility", "public">>,
          <<"mimeType", "mimeType", "application/octet-stream">>}
    [] op = "getBucketContents" ->
         {<<"prefix", "prefix", "">>, <<"page", "page", "1">>,
          <<"limit", "limit", "20">>}
    [] op = "generateSignedUrl" /\ type \in {"upload", "start-multipart"} ->
         {<<"visibility", "visibility", "public">>}
    [] op = "generateSignedUrl" /\ type = "download" ->
         {<<"expiresIn", "expiresIn", "3600">>}
    [] OTHER -> {}

\* C20: when an option is unset (left out; an empty string and the number
\* 0 count as left out) the request or URL carries the operation's literal
\* default, and when it is set it carries the caller's value: visibility
\* public, mimeType application/octet-stream, prefix empty, page 1,
\* limit 20, expiresIn 3600.
C20_LiteralDefaults ==
  (Sent \/ ReturnedUrl)
  => LET q == WireQuery IN
     \A d \in C20_Defaults(cur.op, String(cur.args.type)) :
       Param(q, d[1]) = IF Truthy(cur.args[d[2]])
                        THEN String(cur.args[d[2]])
                        ELSE d[3]

\* a listing with prefix and page left out and limit 2 has sent prefix
\* empty, page 1 and limit 2
C20_Witness ==
  /\ IsCall("getBucketContents") /\ Sent
  /\ cur.args.prefix = undefined /\ cur.args.page = undefined
  /\ cur.args.limit = Num(2)
  /\ Param(WireQuery, "prefix") = ""
  /\ Param(WireQuery, "page") = "1"
  /\ Param(WireQuery, "limit") = "2"

\* C21: completeMultipartUpload, given an uploadId, rejects parts that are
\* not an array with "parts must be an array of {ETag, PartNumber}" and
\* sends nothing; given also a key, for any array (empty, unordered, with
\* gaps or duplicate PartNumbers) it sends one POST whose body is {parts}
\* with the caller's sequence unchanged in content and order.
C21_PartsSentAsGiven ==
  (IsCall("completeMultipartUpload") /\ Truthy(cur.args.uploadId))
  => /\ cur.args.parts.t # "array"
          => /\ cur.status = "rejected"
             /\ cur.error.message = "parts must be an array of {ETag, PartNumber}"
             /\ cur.calls = 0 /\ cur.request = NoRequest
     /\ (cur.args.parts.t = "array" /\ Truthy(cur.args.key))
          => /\ Sent /\ cur.calls = 1
             /\ cur.request.method = "POST"
             /\ cur.request.data.t = "object"
             /\ Len(cur.request.data.fields) = 1
             /\ cur.request.data.fields[1][1] = "parts"
             /\ cur.request.data.fields[1][2].t = "array"
             /\ cur.request.data.fields[1][2].items = cur.args.parts.items

\* parts 3 then 1 (unordered, with a gap) have been sent as given
C21_Witness ==
  /\ IsCall("completeMultipartUpload") /\ Sent
  /\ cur.args.parts = Array(<<Part(3), Part(1)>>)
  /\ Get(cur.request.data, "parts") = Array(<<Part(3), Part(1)>>)

(***************************************************************************)
(* The grouped methods this.files and this.bucket: each is a method of the *)
(* class bound to the instance.  Calls are given here by position, x being *)
(* the tuple of the arguments of the call.                                 *)
(***************************************************************************)
\* this.files with delete bound to purgeFile.
files_deleteIsPurge ==
  [upload |-> "uploadFile",
   delete |-> "purgeFile",
   purge |-> "purgeFile",
   getSignedUrl |-> "generateSignedUrl",
   startMultipartUpload |-> "startMultipartUpload",
   uploadPart |-> "uploadPart",
   completeMultipartUpload |-> "completeMultipartUpload",
   cancelMultipartUpload |-> "cancelMultipartUpload"]

\* this.files and this.bucket: the method each grouped name is bound to
files ==
  [upload |-> "uploadFile",
   delete |-> "deleteFile",
   purge |-> "purgeFile",
   getSignedUrl |-> "generateSignedUrl",
   startMultipartUpload |-> "startMultipartUpload",
   uploadPart |-> "uploadPart",
   completeMultipartUpload |-> "completeMultipartUpload",
   cancelMultipartUpload |-> "cancelMultipartUpload"]

bucket == [listContents |-> "getBucketContents"]

\* the i-th argument of a call, undefined when the call has fewer
Arg(x, i) == IF i <= Len(x) THEN x[i] ELSE undefined

\* the i-th argument where a method takes a key, a file, parts or a type:
\* an options object given there is just some object
Val(x, i) ==
  IF "t" \in DOMAIN Arg(x, i) THEN Arg(x, i) ELSE Object(<<>>)

\* The options a method reads its keys from: the default {} for an
\* argument left out; a string has none of the keys.
OptionsOf(v) == IF "t" \in DOMAIN v THEN NoArgs ELSE v

\* The parameters of each method, filled from the arguments of a call.
Parameters(m, x) ==
  CASE m = "uploadFile" -> [OptionsOf(Arg(x, 2)) EXCEPT !.file = Val(x, 1)]
    [] m \in {"deleteFile", "purgeFile", "startMultipartUpload",
              "cancelMultipartUpload"} ->
         [OptionsOf(Arg(x, 2)) EXCEPT !.key = Val(x, 1)]
    [] m = "uploadPart" ->
         [OptionsOf(Arg(x, 3)) EXCEPT !.key = Val(x, 1), !.file = Val(x, 2)]
    [] m = "completeMultipartUpload" ->
         [OptionsOf(Arg(x, 3)) EXCEPT !.key = Val(x, 1), !.parts = Val(x, 2)]
    [] m = "getBucketContents" -> OptionsOf(Arg(x, 1))
    [] m = "generateSignedUrl" ->
         [OptionsOf(Arg(x, 2)) EXCEPT !.type = Val(x, 1)]

\* The method m called with parameters a, up to its first await.
MethodCall(config, t, m, a) ==
  CASE m = "uploadFile" -> uploadFile(config, t, a)
    [] m = "deleteFile" -> deleteFile(config, t, a)
    [] m = "purgeFile" -> purgeFile(config, t, a)
    [] m = "startMultipartUpload" -> startMultipartUpload(config, t, a)
    [] m = "uploadPart" -> uploadPart(config, t, a)
    [] m = "completeMultipartUpload" -> completeMultipartUpload(config, t, a)
    [] m = "cancelMultipartUpload" -> cancelMultipartUpload(config, t, a)
    [] m = "getBucketContents" -> getBucketContents(config, t, a)
    [] m = "generateSignedUrl" -> generateSignedUrl(config, t, a)

MethodNames ==
  {"uploadFile", "deleteFile", "purgeFile", "startMultipartUpload",
   "uploadPart", "completeMultipartUpload", "cancelMultipartUpload",
   "getBucketContents", "generateSignedUrl"}

\* The grouped names, as the caller writes them.
GroupedNames ==
  {<<"files", n>> : n \in DOMAIN files}
    \cup {<<"bucket", n>> : n \in DOMAIN bucket}

\* The method a grouped name is bound to.
BoundMethod(g) == IF g[1] = "files" THEN files[g[2]] ELSE bucket[g[2]]

GroupedOp(g) == g[1] \o "." \o g[2]

\* Options objects and argument tuples of the calls made on the grouped
\* methods.
SomeOptions ==
  {[NoArgs EXCEPT !.key = Str("a/b")],
   [NoArgs EXCEPT !.key = Str("a/b"), !.bucketName = Str("b1"),
      !.uploadId = Str("u1"), !.partNumber = Num(2), !.totalParts = Num(2),
      !.mimeType = Str("text/plain")]}

ArgumentTuples ==
  {<<>>, <<Str("a/b")>>, <<Str("b1"), Str("a/b")>>}
    \cup {<<o>> : o \in SomeOptions}
    \cup {<<first, o>> :
            first \in {undefined, Str("a/b"), Buffer(5), ReadStream,
                       Str("delete"), Str("download"), Str("upload")},
            o \in SomeOptions}
    \cup {<<Str("a/b"), second, o>> :
            second \in {Buffer(5), Array(<<Part(1)>>)}, o \in SomeOptions}

\* A call of method m with the arguments x, as the call record of slot op.
Called(op, config, t, m, x) ==
  [x |-> x] @@ Call(op, Parameters(m, x), MethodCall(config, t, m, Parameters(m, x)))

\* The same arguments are given to a grouped method and to a method of the
\* client itself.
GroupedCall ==
  /\ cur = Idle /\ other = Idle
  /\ client.constructed
  /\ \E g \in GroupedNames, m \in MethodNames, x \in ArgumentTuples :
       /\ cur' = Called(GroupedOp(g), client.config, now, BoundMethod(g), x)
       /\ other' = Called(m, client.config, now, m, x)
  /\ UNCHANGED <<client, now, sigLast>>

\* A call as the callback of form.getLength leaves it.
Probed(c, config, t, r) ==
  IF c.op = "none" \/ c.status # "probing" THEN c
  ELSE IF r.t = "number"
  THEN LET o == uploadFileSend(config, t, c.form, c.path, r)
       IN [c EXCEPT !.status = o.status, !.calls = o.calls,
             !.request = o.request]
  ELSE [c EXCEPT !.status = "rejected", !.error = r.error]

\* A call as an answer of the transport leaves it.
Answered(c, r) ==
  IF c.op = "none" \/ c.status # "pending" THEN c
  ELSE IF r.t = "response"
  THEN [c EXCEPT !.status = "resolved", !.value = r.data,
          !.transport = Response(200, r.data)]
  ELSE [c EXCEPT !.status = "rejected", !.error = handleError(r.error),
          !.transport = r.error]

\* The form-length probes of both calls end the same way.
GroupedGetLength ==
  /\ "probing" \in {c.status : c \in {cur, other} \ {Idle}}
  /\ \E r \in FormLengths \cup {[t |-> "error", error |-> e] : e \in FormErrors} :
       /\ cur' = Probed(cur, client.config, now, r)
       /\ other' = Probed(other, client.config, now, r)
  /\ UNCHANGED <<client, now, sigLast>>

\* The transport gives both calls the same answer.
GroupedAnswer ==
  /\ "pending" \in {c.status : c \in {cur, other} \ {Idle}}
  /\ \E r \in {[t |-> "response", data |-> d] : d \in ResponseData}
               \cup {[t |-> "error", error |-> e] : e \in TransportErrors} :
       /\ cur' = Answered(cur, r)
       /\ other' = Answered(other, r)
  /\ UNCHANGED <<client, now, sigLast>>

\* this.files.getSignedUrl of the second definition of the class:
\* (bucketName, key, options) =>
\*   this.generateSignedUrl(options.type, {bucketName, key, ...options})
\* options.type is read of the options as given, with no default.
getSignedUrl_2(config, t, x) ==
  IF "t" \in DOMAIN Arg(x, 3)
  THEN IF Arg(x, 3) = undefined
       THEN Rejected(TypeError(
              "Cannot read properties of undefined (reading 'type')"))
       ELSE generateSignedUrl_2(config, t,
              [NoArgs EXCEPT !.bucketName = Arg(x, 1), !.key = Arg(x, 2)])
  ELSE LET options == Arg(x, 3)
       IN generateSignedUrl_2(config, t,
            [options EXCEPT
               !.bucketName = IF options.bucketName = undefined
                              THEN Arg(x, 1) ELSE options.bucketName,
               !.key = IF options.key = undefined
                       THEN Arg(x, 2) ELSE options.key])

GetSignedUrlTuples_2 ==
  {<<Str("b1"), Str("a/b")>>}
    \cup {<<Str("b1"), Str("a/b"), [NoArgs EXCEPT !.type = Str(type)]>> :
            type \in {"download", "delete"}}

\* files.getSignedUrl is called on a client of the second definition.
GetSignedUrl_2 ==
  /\ cur = Idle /\ other = Idle
  /\ client.constructed
  /\ \E x \in GetSignedUrlTuples_2 :
       cur' = [x |-> x]
                @@ Call("files_2.getSignedUrl",
                        [NoArgs EXCEPT !.bucketName = Arg(x, 1),
                           !.key = Arg(x, 2)],
                        getSignedUrl_2(client.config, now, x))
  /\ UNCHANGED <<client, now, sigLast, other>>

\* Neither waiting for the form length nor for the transport.
Quiet(c) == IF c = Idle THEN TRUE ELSE c.status \notin {"probing", "pending"}

GroupedSettle ==
  /\ cur # Idle /\ cur.op # "constructor"
  /\ Quiet(cur) /\ Quiet(other)
  /\ cur' = Idle /\ other' = Idle
  /\ UNCHANGED <<client, now, sigLast>>

NextGrouped ==
  \/ New
  \/ Settle /\ cur.op = "constructor"
  \/ GroupedCall
  \/ GetSignedUrl_2
  \/ GroupedGetLength
  \/ GroupedAnswer
  \/ GroupedSettle

SpecGrouped == Init /\ [][NextGrouped]_vars

\* The method of the client each grouped method is said to be.
C22_Own(op) ==
  CASE op = "files.upload" -> "uploadFile"
    [] op = "files.delete" -> "deleteFile"
    [] op = "files.purge" -> "purgeFile"
    [] op = "files.getSignedUrl" -> "generateSignedUrl"
    [] op = "files.startMultipartUpload" -> "startMultipartUpload"
    [] op = "files.uploadPart" -> "uploadPart"
    [] op = "files.completeMultipartUpload" -> "completeMultipartUpload"
    [] op = "files.cancelMultipartUpload" -> "cancelMultipartUpload"
    [] op = "bucket.listContents" -> "getBucketContents"
    [] OTHER -> "none"

C23_GetSignedUrlByBucketAndKey ==
  (cur.op \in {"files.getSignedUrl", "files_2.getSignedUrl"}
     /\ cur.x = <<Str("b1"), Str("a/b")>>)
  => /\ cur.calls = 1
     /\ cur.request # NoRequest
     /\ cur.request.method = "GET"
     /\ WirePath = "https://api.apexxcloud.com/api/v1/files/signed-url"
     /\ cur.status = "resolved" => cur.value = cur.transport.data

\* C23 on files.getSignedUrl of the second definition alone.
C23_SecondDefinition ==
  (cur.op = "files_2.getSignedUrl" /\ cur.x = <<Str("b1"), Str("a/b")>>)
  => cur.calls = 1 /\ cur.request # NoRequest

\* C23 on files.getSignedUrl of the first definition alone.
C23_FirstDefinition ==
  (cur.op = "files.getSignedUrl" /\ cur.x = <<Str("b1"), Str("a/b")>>)
  => cur.calls = 1 /\ cur.request # NoRequest

\* C24: for every (method, path, timestamp), a client configured with a
\* different secret key produces a different signature (the digest being
\* taken as collision-free) and the same timestamp.
C24_KeyChangesSignature ==
  Signed
  => \A k \in DOMAIN sigLast.rivals :
       /\ k # sigLast.secretKey
       /\ sigLast.rivals[k].signature # sigLast.out.signature
       /\ sigLast.rivals[k].timestamp = sigLast.out.timestamp

\* the client with secret key SK1 and one with SK2 have signed the same
\* method, path and timestamp
C24_Witness ==
  /\ Signed /\ sigLast.secretKey = Str("SK1")
  /\ sigLast.timestamp = Str("2024-03-14T12:00:00Z")
  /\ Str("SK2") \in DOMAIN sigLast.rivals
  /\ sigLast.rivals[Str("SK2")].signature # sigLast.out.signature

\* The inputs each operation is said to check, in the order it is said to
\* check them, each with whether the call lacks it.
C25_Checks(op, a) ==
  CASE op = "uploadFile" ->
         << <<"fileData", ~Truthy(a.file)>>, <<"key", ~Truthy(a.key)>> >>
    [] op = "startMultipartUpload" ->
         << <<"key", ~Truthy(a.key)>>,
            <<"totalParts", ~Truthy(a.totalParts)>> >>
    [] op = "uploadPart" ->
         << <<"uploadId", ~Truthy(a.uploadId)>>,
            <<"partNumber", ~Truthy(a.partNumber)>>,
            <<"key", ~Truthy(a.key)>>,
            <<"totalParts", ~Truthy(a.totalParts)>> >>
    [] op = "completeMultipartUpload" ->
         << <<"uploadId", ~Truthy(a.uploadId)>>,
            <<"parts", a.parts.t # "array">>,
            <<"key", ~Truthy(a.key)>> >>
    [] op = "cancelMultipartUpload" ->
         << <<"uploadId", ~Truthy(a.uploadId)>>,
            <<"key", ~Truthy(a.key)>> >>
    [] OTHER -> <<>>

C25_Failing(op, a) ==
  {i \in 1..Len(C25_Checks(op, a)) : C25_Checks(op, a)[i][2]}

C25_ValidType(a) == a.type.t = "string" /\ a.type.s \in validOperations

\* C25: a call that lacks one or several required inputs is rejected, with
\* nothing sent, by an error whose message begins with the name of the
\* first lacking input in the check order of the operation (upload: file
\* data, key; startMultipartUpload: key, totalParts; uploadPart: uploadId,
\* partNumber, key, totalParts; completeMultipartUpload: uploadId, parts
\* being an array, key; cancelMultipartUpload: uploadId, key); and
\* generateSignedUrl given an unsupported type rejects with the unsupported
\* type error whatever fields are missing too.
C25_FirstMissingNamed ==
  /\ (cur.op # "none" /\ cur.op # "constructor"
        /\ C25_Failing(cur.op, cur.args) # {})
       => LET failing == C25_Failing(cur.op, cur.args)
              first == CHOOSE i \in failing : \A j \in failing : i <= j
          IN /\ cur.status = "rejected"
             /\ cur.calls = 0 /\ cur.request = NoRequest
             /\ Before(cur.error.message, " ")
                  = C25_Checks(cur.op, cur.args)[first][1]
  /\ (IsCall("generateSignedUrl") /\ ~C25_ValidType(cur.args))
       => /\ cur.status = "rejected"
          /\ cur.error.message
               = "Unsupported operation type: " \o String(cur.args.type)

\* uploadPart called without part number, key and totalParts has been
\* rejected for the part number
C25_Witness ==
  /\ IsCall("uploadPart")
  /\ cur.args.uploadId = Str("u1")
  /\ cur.args.partNumber = undefined /\ cur.args.key = undefined
  /\ cur.args.totalParts = undefined
  /\ cur.status = "rejected"
  /\ cur.error.message = "partNumber is required for upload part"

C26_ApiErrorPrefix ==
  "API Error " \o ToString(cur.transport.response.status.n) \o ": "

\* C26: however the transport rejects (a response whose body carries a
\* message, a body without a message, no body, or no response at all), the
\* call rejects with the transport's own error or with an Error whose
\* message starts with "API Error <status>: ".
C26_RejectionMapped ==
  TransportRejected
  => \/ cur.error = cur.transport
     \/ /\ cur.transport.response.t # "undefined"
        /\ cur.error.name = "Error"
        /\ Len(cur.error.message) >= Len(C26_ApiErrorPrefix)
        /\ SubSeq(cur.error.message, 1, Len(C26_ApiErrorPrefix))
             = C26_ApiErrorPrefix

\* The same for the rejections whose response has no body: the mapping
\* raises no error of its own.
C26_AbsentBodyMapped ==
  (TransportRejected /\ cur.transport.response.t # "undefined"
     /\ cur.transport.response.data = undefined)
  => cur.error.name # "TypeError"

\* the values the caller supplied for a parameter: by argument, by config
C27_Supplied(argument, configured) ==
  {String(v) : v \in {argument, configured} \ {undefined}}

\* C27: in every request sent and every URL returned, bucket_name and
\* region are values the caller supplied, by argument of the operation or
\* by config of the constructor; in particular neither is a placeholder
\* standing for a value nobody gave.
C27_BucketAndRegionSupplied ==
  (Sent \/ ReturnedUrl)
  => /\ Param(WireQuery, "bucket_name")
          \in C27_Supplied(cur.args.bucketName, client.config.defaultBucket)
     /\ Param(WireQuery, "region")
          \in C27_Supplied(cur.args.region, client.config.region)

\* The same for the calls given no bucket on a client without a default
\* bucket: nothing is sent or returned with a bucket_name.
C27_NoBucketNoRequest ==
  (cur.op # "none" /\ cur.op # "constructor"
     /\ cur.args.bucketName = undefined
     /\ client.config.defaultBucket = undefined)
  => ~(Sent \/ ReturnedUrl) \/ Param(WireQuery, "bucket_name") = Absent

\* The request of the direct operation that corresponds to a signed-URL
\* type, called with the key, the uploadId and the other options of the
\* signed-URL call, and with a file or a list of parts where it takes one.
C28_Direct(type, config, t, a) ==
  LET d == [a EXCEPT !.file = Buffer(5), !.parts = Array(<<>>)] IN
  CASE type = "upload" ->
         LET o == uploadFile(config, t, d)
         IN IF o.status = "probing"
            THEN uploadFileSend(config, t, o.form, o.path, Num(217))
            ELSE o
    [] type = "delete" -> deleteFile(config, t, d)
    [] type = "start-multipart" -> startMultipartUpload(config, t, d)
    [] type = "uploadpart" -> uploadPart(config, t, d)
    [] type = "completemultipart" -> completeMultipartUpload(config, t, d)
    [] type = "cancelmultipart" -> cancelMultipartUpload(config, t, d)

C28_Types ==
  {"upload", "delete", "start-multipart", "uploadpart", "completemultipart",
   "cancelmultipart"}

C28_SameAsDirect ==
  (ReturnedUrl /\ String(cur.args.type) \in C28_Types)
  => LET d == C28_Direct(String(cur.args.type), client.config, now, cur.args)
     IN d.status = "pending"
        => /\ cur.url.method = d.request.method
           /\ WirePath = Before(d.request.url, "?")

\* C28: for each signed-URL type with a direct counterpart, the URL that
\* generateSignedUrl returns (either definition of it in the file) is signed
\* with the verb, and has the path before its query string, of the request
\* the direct operation sends for the same key and uploadId.
C28_SignedUrlMatchesDirect ==
  (cur.op \in {"generateSignedUrl", "generateSignedUrl_2"})
  => C28_SameAsDirect

\* The same of the first definition of generateSignedUrl alone.
C28_FirstDefinition == IsCall("generateSignedUrl") => C28_SameAsDirect

\* the calls that require totalParts, and those that require partNumber
C29_NeedsTotalParts ==
  \/ cur.op \in {"startMultipartUpload", "uploadPart"}
  \/ /\ IsCall("generateSignedUrl")
     /\ String(cur.args.type) \in {"start-multipart", "uploadpart"}

C29_NeedsPartNumber ==
  \/ IsCall("uploadPart")
  \/ IsCall("generateSignedUrl") /\ String(cur.args.type) = "uploadpart"

\* rejected for a missing required field, with nothing sent or returned
C29_RejectedAsMissing ==
  /\ cur.status = "rejected"
  /\ cur.calls = 0 /\ cur.request = NoRequest /\ cur.url = NoUrl
  /\ Find(cur.error.message, " ", 1) > 0
  /\ SubSeq(After(cur.error.message, " "), 1, 15) = "is required for"

\* C29: a numeric option equal to 0 is treated as absent.  totalParts = 0
\* or partNumber = 0 is rejected as a missing required field by
\* startMultipartUpload, uploadPart and generateSignedUrl, and nothing is
\* sent (the field named being the zero one when no check before it
\* fails); page = 0 or limit = 0 of listContents and expiresIn = 0 of the
\* download variant are sent as the defaults 1, 20 and 3600.
C29_ZeroIsAbsent ==
  /\ (C29_NeedsTotalParts /\ cur.args.totalParts = Num(0))
       => /\ C29_RejectedAsMissing
          /\ (Truthy(cur.args.key) /\ Truthy(cur.args.uploadId)
                /\ Truthy(cur.args.partNumber))
               => Before(cur.error.message, " ") = "totalParts"
  /\ (C29_NeedsPartNumber /\ cur.args.partNumber = Num(0))
       => /\ C29_RejectedAsMissing
          /\ Truthy(cur.args.uploadId)
               => Before(cur.error.message, " ") = "partNumber"
  /\ (IsCall("getBucketContents") /\ Sent)
       => /\ cur.args.page = Num(0) => Param(WireQuery, "page") = "1"
          /\ cur.args.limit = Num(0) => Param(WireQuery, "limit") = "20"
  /\ (IsCall("generateSignedUrl") /\ Sent /\ cur.args.expiresIn = Num(0))
       => Param(WireQuery, "expiresIn") = "3600"

\* listContents with page 0 and limit 0 has sent page 1 and limit 20
C29_Witness ==
  /\ IsCall("getBucketContents") /\ Sent
  /\ cur.args.page = Num(0) /\ cur.args.limit = Num(0)
  /\ Param(WireQuery, "page") = "1"
  /\ Param(WireQuery, "limit") = "20"

\* uploadPart with part number 0 has been rejected for its part number
C29_WitnessRejected ==
  /\ IsCall("uploadPart") /\ cur.args.partNumber = Num(0)
  /\ cur.args.uploadId = Str("u1")
  /\ cur.error.message = "partNumber is required for upload part"

\* upload waiting for the length of its form
C30_Probing == IsCall("uploadFile") /\ cur.status = "probing"

\* While the length is awaited nothing has been sent, and the request that
\* upload sends is one PUT whose headers are the form's headers, the length
\* obtained as Content-Length, and the auth headers.
C30_SentAfterLength ==
  /\ C30_Probing => cur.calls = 0 /\ cur.request = NoRequest
  /\ (IsCall("uploadFile") /\ Sent)
       => LET h == cur.request.headers IN
          /\ cur.calls = 1
          /\ cur.request.method = "PUT"
          /\ DOMAIN h = {"content-type", "Content-Length"} \cup AuthHeaders
          /\ h["Content-Length"] \in FormLengths
          /\ h["content-type"] = getHeaders(cur.form)["content-type"]
          /\ cur.request.data = cur.form

\* The step that ends the wait: a rejection with the error of the probe and
\* no call of the transport, or the sending of the request.
C30_ProbeAnswered ==
  (C30_Probing /\ cur' # cur)
  => \/ /\ cur'.status = "rejected"
        /\ cur'.error \in FormErrors
        /\ cur'.calls = 0 /\ cur'.request = NoRequest
     \/ /\ cur'.status = "pending"
        /\ cur'.calls = 1
        /\ cur'.request.headers["Content-Length"] \in FormLengths

\* C30: upload calls the transport only after the length of its form has
\* been obtained: when the probe fails upload rejects with the error of the
\* probe and the transport is never called, and when it succeeds the one
\* PUT request carries that length as Content-Length with the form's
\* headers and the auth headers.
C30_LengthBeforeTransport ==
  []C30_SentAfterLength /\ [][C30_ProbeAnswered]_vars

\* the probe of a stream's form has failed and upload has rejected with its
\* error without a call of the transport
C30_Witness ==
  /\ IsCall("uploadFile") /\ cur.status = "rejected"
  /\ cur.args.file = ReadStream /\ Truthy(cur.args.key)
  /\ cur.error = Error("Unknown stream")
  /\ cur.calls = 0

\* the probe has succeeded and the PUT carrying the length is with the
\* transport
C30_WitnessSent ==
  /\ IsCall("uploadFile") /\ Sent /\ cur.status = "pending"
  /\ cur.request.headers["Content-Length"] = Num(217)
====
